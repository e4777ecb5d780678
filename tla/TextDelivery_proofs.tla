------------------------ MODULE TextDelivery_proofs ------------------------
(***************************************************************************)
(* What is proved of TextDelivery: the types of the observation and of the  *)
(* delivery, that terms are learned soundly, that borrows are honest, and   *)
(* that the watch on the grant has one tap and says so.                     *)
(***************************************************************************)
EXTENDS TextDelivery, FiniteSetTheorems, SequenceTheorems, TLAPS

USE DeliveriesAssumption, ObservationBoundsAssumption, TimelyAssumption

\* What a target, a reading to compare and an answer are.
Targets == [of : Name, left : 0 .. ReadBudget, anchors : Name]
Readings == [key : SUBSET Terms, about : Name]
Answered == [is : {"span", "unavailable"}, generation : Name, key : SUBSET Terms, about : Name]

\* The timers are those the schedule knows, and the ways to ask those and one more.
LEMMA DueTimers == DOMAIN Due = Timer /\ LastChance \subseteq Timer \cup {"next"}
  BY DEF Due, Timer, LastChance

\* The fields of an observation, and that setting one leaves an observation.
LEMMA ObservationFields ==
  ASSUME NEW o \in Observation
  PROVE  /\ o.of \in Name /\ o.generation \in Name /\ o.baselined \in BOOLEAN
         /\ o.busy \in BOOLEAN /\ o.last \subseteq Readings /\ o.timers \subseteq Timer
         /\ \A x \in BOOLEAN : /\ [o EXCEPT !.busy = x] \in Observation
                               /\ [o EXCEPT !.baselined = x] \in Observation
         /\ \A x \in Name : [o EXCEPT !.generation = x] \in Observation
         /\ \A x \in SUBSET Readings : [o EXCEPT !.last = x] \in Observation
         /\ \A x \in SUBSET Timer : [o EXCEPT !.timers = x] \in Observation
  BY DEF Observation, Readings

\* What nothing is told by is of the types too.
LEMMA Blanks == Closed \in Observation /\ NoTarget \in Targets /\ 0 \in Name
  BY DEF Closed, NoTarget, Observation, Targets, Name

\* Closing an observation ends a delivery's target, or nothing's.
LEMMA CloseTypes ==
  ASSUME NEW o \in Observation, endings \subseteq Deliveries, Close(o)
  PROVE  current' \in Observation /\ endings' \subseteq Deliveries
  BY ObservationFields, Blanks DEF Close, Name

\* Asking for a read leaves the types.
LEMMA AsksTypes ==
  ASSUME ObservationTypeOK, NEW o \in Observation, NEW by \in Timer \cup {"next"}, Asks(o, by)
  PROVE  current' \in Observation /\ endings' \subseteq Deliveries /\ tasks' \subseteq Task
<1>1. [of |-> o.of, by |-> by, at |-> "asked", awaited |-> TRUE,
       generation |-> 0, anchors |-> 0, key |-> {}, reads |-> {}] \in Task
  BY ObservationFields, Blanks DEF Task
<1> QED BY <1>1 DEF Asks, Stays, ObservationTypeOK

\* So does a check, whatever it does.
LEMMA ChecksTypes ==
  ASSUME ObservationTypeOK, NEW o \in Observation, NEW by \in Timer \cup {"next"}, Checks(o, by)
  PROVE  current' \in Observation /\ endings' \subseteq Deliveries /\ tasks' \subseteq Task
<1>1. CASE Close(o) /\ UNCHANGED tasks
  BY <1>1, CloseTypes DEF ObservationTypeOK
<1>2. CASE Stays(o) /\ UNCHANGED tasks
  BY <1>2 DEF ObservationTypeOK, Stays
<1>3. CASE Asks([o EXCEPT !.busy = TRUE], by)
  BY <1>3, AsksTypes, ObservationFields
<1> QED BY <1>1, <1>2, <1>3 DEF Checks

\* A task goes on as a task.
LEMMA TaskFields ==
  ASSUME NEW t \in Task
  PROVE  /\ t.of \in Name /\ t.generation \in Name /\ t.anchors \in Name /\ t.key \subseteq Terms
         /\ t.awaited \in BOOLEAN /\ t.reads \subseteq Name
         /\ t.at \in {"asked", "taken", "hashing"} /\ t.by \in Timer \cup {"next", "nobody"}
         /\ \A n, m \in Name : [t EXCEPT !.at = "taken", !.generation = n, !.anchors = m] \in Task
         /\ \A key \in SUBSET Terms, reads \in SUBSET Name :
               [t EXCEPT !.at = "hashing", !.key = key, !.reads = reads] \in Task
         /\ [t EXCEPT !.awaited = FALSE, !.of = 0, !.by = "nobody"] \in Task
  BY Blanks DEF Task

\* What a read leaves when it is answered.
LEMMA ResumeTypes ==
  ASSUME ObservationTypeOK, NEW t \in Task, NEW a \in Answered, NEW rest \in SUBSET Task,
         Resume(t, a, rest)
  PROVE  current' \in Observation /\ endings' \subseteq Deliveries /\ tasks' \subseteq Task
<1>0. current \in Observation /\ endings \subseteq Deliveries /\ tasks \subseteq Task
  BY DEF ObservationTypeOK
<1>a. a.generation \in Name /\ a.key \subseteq Terms /\ a.about \in Name
  BY DEF Answered
<1>1. Named(a) \in Observation
  BY <1>0, <1>a, ObservationFields DEF Named
<1>2. CASE BaselineResumes(t, a) /\ tasks' = rest
  <2>1. CASE Close(Named(a))
    BY <1>0, <1>1, <1>2, <2>1, CloseTypes
  <2>2. CASE Stays([Named(a) EXCEPT !.baselined = TRUE])
    BY <1>0, <1>1, <1>2, <2>2, ObservationFields DEF Stays
  <2>3. CASE Stays([Named(a) EXCEPT !.timers = @ \cup {"retry"}])
    <3>1. Named(a).timers \cup {"retry"} \in SUBSET Timer
      BY <1>1, ObservationFields DEF Timer
    <3> QED BY <1>0, <1>1, <1>2, <2>3, <3>1, ObservationFields DEF Stays
  <2> QED BY <1>2, <2>1, <2>2, <2>3 DEF BaselineResumes
<1>3. CASE CheckResumes(t, a, rest)
  <2> DEFINE o == [Named(a) EXCEPT !.busy = FALSE]
             same == {read \in o.last : read.key = a.key}
             about == {a.about} \cup {read.about : read \in same}
  <2>1. o \in Observation
    BY <1>1, ObservationFields
  <2>2. CASE Close(o) /\ tasks' = rest
    BY <1>0, <2>1, <2>2, CloseTypes
  <2>3. CASE Stays(o) /\ tasks' = rest \cup {[t EXCEPT !.at = "hashing", !.key = a.key, !.reads = about]}
    <3>1. \A read \in same : read.about \in Name
      BY <2>1, ObservationFields DEF Readings
    <3>2. about \in SUBSET Name
      BY <1>a, <3>1
    <3>3. [t EXCEPT !.at = "hashing", !.key = a.key, !.reads = about] \in Task
      BY <1>a, <3>2, TaskFields
    <3> QED BY <1>0, <2>1, <2>3, <3>3 DEF Stays
  <2>4. CASE Stays([o EXCEPT !.last = {[key |-> a.key, about |-> a.about]}]) /\ tasks' = rest
    <3>1. {[key |-> a.key, about |-> a.about]} \in SUBSET Readings
      BY <1>a DEF Readings
    <3> QED BY <1>0, <2>1, <2>4, <3>1, ObservationFields DEF Stays
  <2> QED BY <1>3, <2>2, <2>3, <2>4 DEF CheckResumes
<1> QED BY <1>0, <1>2, <1>3 DEF Resume

\* Every step of the page, the host or the person leaves the observation in its types.
LEMMA ObservationTypes ==
  ASSUME ObservationTypeOK, ObservationNext
  PROVE  ObservationTypeOK'
<1> USE DEF ObservationTypeOK
<1>0. target \in Targets /\ Closed \in Observation /\ NoTarget \in Targets /\ 0 \in Name
  BY Blanks DEF Targets
<1>a. /\ target.of \in Name /\ target.left \in 0 .. ReadBudget /\ target.anchors \in Name
      /\ target.left > 0 => [target EXCEPT !.left = @ - 1] \in Targets
      /\ \A x \in Name : [target EXCEPT !.anchors = x] \in Targets
  BY <1>0 DEF Targets
<1>1. ASSUME NEW by \in Timer, Fire(by) PROVE ObservationTypeOK'
  <2> DEFINE o == [current EXCEPT !.timers = @ \ {by}]
  <2>1. o \in Observation
    BY ObservationFields
  <2>2. landed' \in [Deliveries -> {"no", "landed", "late"}]
    BY <1>1 DEF Fire
  <2>3. current' \in Observation /\ endings' \subseteq Deliveries /\ tasks' \subseteq Task
    BY <1>1, <2>1, AsksTypes, CloseTypes, ChecksTypes DEF Fire
  <2> QED BY <1>1, <2>2, <2>3 DEF Fire
<1>2. ASSUME NEW t \in tasks, TakeRead(t) PROVE ObservationTypeOK'
  <2>1. [t EXCEPT !.at = "taken", !.generation = target.of, !.anchors = target.anchors] \in Task
    BY <1>a, TaskFields
  <2>2. Unavailable(0) \in Answered
    BY <1>0 DEF Unavailable, Answered
  <2>3. tasks \ {t} \in SUBSET Task /\ t \in Task
    OBVIOUS
  <2>4. current' \in Observation /\ endings' \subseteq Deliveries /\ tasks' \subseteq Task
    BY <1>2, <2>1, <2>2, <2>3, ResumeTypes DEF TakeRead
  <2>5. target' \in Targets
    BY <1>2, <1>0, <1>a DEF TakeRead
  <2> QED BY <1>2, <2>4, <2>5 DEF TakeRead, Targets
<1>3. ASSUME NEW g \in endings, EndArrives(g) PROVE ObservationTypeOK'
  BY <1>3, <1>0 DEF EndArrives, Targets
<1>4. CASE DictationStarts
  BY <1>4, ChecksTypes DEF DictationStarts
<1>5. CASE Cancel
  BY <1>5, CloseTypes DEF Cancel
<1>6. CASE Command
  BY <1>6, <1>0, CloseTypes DEF Command, Targets
<1>7. ASSUME NEW c \in Terms, NEW how \in {"accepted", "forgotten"}, Settles(c, how)
      PROVE  ObservationTypeOK'
  BY <1>7 DEF Settles, Row
<1>8. ASSUME NEW d \in Deliveries, Opens(d) PROVE ObservationTypeOK'
  <2>1. [Closed EXCEPT !.of = d, !.timers = {"baseline", "first", "second", "final"}] \in Observation
    BY DEF Closed, Observation, Name, Timer
  <2> QED BY <1>8, <1>0, <2>1 DEF Opens
<1>9. ASSUME NEW d \in Deliveries, Enters(d) PROVE ObservationTypeOK'
  BY <1>9, <1>0, CloseTypes DEF Enters, Targets
<1>10. ASSUME NEW t \in tasks, Hashed(t) PROVE ObservationTypeOK'
  <2>1. current' \in Observation /\ endings' \subseteq Deliveries
    BY <1>10, CloseTypes DEF Hashed
  <2>2. ASSUME NEW terms, Learn(t, terms) PROVE rows' \in [Terms -> Row]
    <3>1. [of |-> t.of, reads |-> t.reads] \in [of : Name, reads : SUBSET Name]
      BY TaskFields
    <3>2. \A c \in Terms : /\ rows[c] \in Row
                           /\ rows[c].lessons \cup {[of |-> t.of, reads |-> t.reads]}
                                 \in SUBSET [of : Name, reads : SUBSET Name]
      BY <3>1 DEF Row
    <3>3. \A c \in Terms :
            [is |-> IF rows[c].is = "pending" THEN "active" ELSE "pending",
             lessons |-> rows[c].lessons \cup {[of |-> t.of, reads |-> t.reads]}] \in Row
      BY <3>2 DEF Row
    <3> QED BY <2>2, <3>2, <3>3 DEF Learn
  <2>3. rows' \in [Terms -> Row]
    BY <1>10, <2>2 DEF Hashed
  <2> QED BY <1>10, <2>1, <2>3 DEF Hashed
<1>11. ASSUME NEW t \in tasks, Answers(t) PROVE ObservationTypeOK'
  <2>1. t \in Task /\ tasks \ {t} \in SUBSET Task
    OBVIOUS
  <2>2. Unavailable(t.generation) \in Answered
    BY <1>0, TaskFields DEF Unavailable, Answered
  <2>3. \A key \in SUBSET Terms :
          [is |-> "span", generation |-> t.generation, key |-> key,
           about |-> IF t.anchors = 0 THEN t.generation ELSE t.anchors] \in Answered
    BY TaskFields DEF Answered
  <2>4. current' \in Observation /\ endings' \subseteq Deliveries /\ tasks' \subseteq Task
    <3>1. \A key \in IF t.anchors = 0 THEN {{}} ELSE SUBSET Terms : key \in SUBSET Terms
      OBVIOUS
    <3> QED BY <1>11, <2>1, <2>2, <2>3, <3>1, ResumeTypes DEF Answers
  <2>5. target' \in Targets
    <3>1. t.generation \in Name
      BY TaskFields
    <3>2. target' = target \/ target' = [target EXCEPT !.anchors = t.generation]
      BY <1>11 DEF Answers, KeepAnchors
    <3> QED BY <1>0, <1>a, <3>1, <3>2
  <2> QED BY <1>11, <2>4, <2>5 DEF Answers, Targets
<1>12. ASSUME NEW t \in tasks, GiveUp(t) PROVE ObservationTypeOK'
  <2>1. [t EXCEPT !.awaited = FALSE, !.of = 0, !.by = "nobody"] \in Task /\ t \in Task
    BY TaskFields
  <2>2. Unavailable(0) \in Answered
    BY <1>0 DEF Unavailable, Answered
  <2> QED BY <1>12, <2>1, <2>2, ResumeTypes DEF GiveUp
<1> QED
  BY <1>1, <1>2, <1>3, <1>4, <1>5, <1>6, <1>7, <1>8, <1>9, <1>10, <1>11, <1>12, DueTimers
     DEF ObservationNext, Observes

USE WordsAssumption

\* Setting the fields of a delivery leaves a delivery.
LEMMA DeliveryFields ==
  ASSUME NEW r \in Delivery
  PROVE  /\ r.at \in Stage /\ r.keep \in BOOLEAN /\ r.observe \in BOOLEAN
         /\ r.word \in Words \cup {""} /\ r.inherits \in BOOLEAN
         /\ r.owes \in Clipboard \cup {None} /\ r.token \in Source
         /\ \A at \in Stage :
               /\ [r EXCEPT !.at = at] \in Delivery
               /\ \A keep, observe \in BOOLEAN, word \in Words :
                     [r EXCEPT !.keep = keep, !.word = word, !.observe = observe, !.at = at] \in Delivery
               /\ \A n \in Nat : [r EXCEPT !.since = n, !.at = at] \in Delivery
               /\ \A n \in Nat : [r EXCEPT !.at = at, !.since = n] \in Delivery
               /\ \A i \in BOOLEAN : [r EXCEPT !.inherits = i, !.at = at] \in Delivery
               /\ \A owed \in Clipboard : [r EXCEPT !.owes = owed, !.at = at] \in Delivery
               /\ \A owed \in Clipboard \cup {None}, by \in Source :
                     [r EXCEPT !.at = at, !.token = by, !.owes = owed] \in Delivery
  BY DEF Delivery

\* What setting some fields of a delivery leaves of the others.
LEMMA DeliveryReads ==
  ASSUME NEW r \in Delivery, NEW at, NEW i, NEW n, NEW by, NEW owed
  PROVE  /\ LET q == [r EXCEPT !.at = at]
            IN  q.at = at /\ q.keep = r.keep /\ q.observe = r.observe /\ q.word = r.word
                /\ q.inherits = r.inherits /\ q.owes = r.owes /\ q.token = r.token
         /\ LET q == [r EXCEPT !.since = n, !.at = at]
            IN  q.at = at /\ q.keep = r.keep /\ q.observe = r.observe /\ q.word = r.word
                /\ q.inherits = r.inherits /\ q.owes = r.owes /\ q.token = r.token
         /\ LET q == [r EXCEPT !.at = at, !.since = n]
            IN  q.at = at /\ q.keep = r.keep /\ q.observe = r.observe /\ q.word = r.word
                /\ q.inherits = r.inherits /\ q.owes = r.owes /\ q.token = r.token
         /\ LET q == [r EXCEPT !.inherits = i, !.at = at]
            IN  q.at = at /\ q.keep = r.keep /\ q.observe = r.observe /\ q.word = r.word
                /\ q.inherits = i /\ q.owes = r.owes /\ q.token = r.token
         /\ LET q == [r EXCEPT !.owes = owed, !.at = at]
            IN  q.at = at /\ q.keep = r.keep /\ q.observe = r.observe /\ q.word = r.word
                /\ q.inherits = r.inherits /\ q.owes = owed /\ q.token = r.token
         /\ LET q == [r EXCEPT !.at = at, !.token = by, !.owes = owed]
            IN  q.at = at /\ q.keep = r.keep /\ q.observe = r.observe /\ q.word = r.word
                /\ q.inherits = r.inherits /\ q.owes = owed /\ q.token = by
  BY DEF Delivery

\* A delivery that starts, and one that has ended.
LEMMA Started ==
  /\ Resting \in Delivery /\ [Resting EXCEPT !.at = "done"] \in Delivery
  /\ \A keep, observe \in BOOLEAN, word \in Words, at \in Stage :
        [Resting EXCEPT !.keep = keep, !.word = word, !.observe = observe, !.at = at] \in Delivery
<1>1. Nobody \in Source /\ None \in Clipboard \cup {None}
  BY DEF Nobody, Source
<1>3. Resting \in Delivery
  BY <1>1 DEF Resting, Stage, Delivery
<1>4. [Resting EXCEPT !.at = "done"] \in Delivery
  BY <1>3, DeliveryFields DEF Stage
<1>5. \A keep, observe \in BOOLEAN, word \in Words, at \in Stage :
        [Resting EXCEPT !.keep = keep, !.word = word, !.observe = observe, !.at = at] \in Delivery
  BY <1>3, DeliveryFields
<1> QED BY <1>3, <1>4, <1>5

\* The fields of a borrow.
LEMMA BorrowFields ==
  ASSUME NEW b \in Borrowing \cup {None}
  PROVE  b # None => b \in Borrowing /\ b.is = "borrow" /\ b.of \in Deliveries /\ b.token \in Source
                     /\ b.word \in Words /\ b.owes \in Clipboard
  BY DEF Borrowing, None

\* The fields of a restore, and what may become of it.
LEMMA RestoreFields ==
  /\ \A r \in Restore : /\ r.at \in {"none", "waiting", "checking", "stamping"}
                        /\ r.holds \in Borrowing \cup {None}
                        /\ [r EXCEPT !.at = "waiting"] \in Restore
  /\ \A at \in {"none", "waiting", "checking", "stamping"}, b \in Borrowing \cup {None} :
        [at |-> at, holds |-> b] \in Restore
  BY DEF Restore

\* What is captured is what was there, or nothing.
LEMMA CaptureTypes ==
  ASSUME clip \in Clipboard
  PROVE  Capture \in Clipboard /\ Blank \in Clipboard /\ clip.by \in Source
  BY DEF Capture, Clipboard, Blank, Nobody, Source, Reading

\* A step of one delivery leaves the others equipped.
LEMMA EquippedStays ==
  ASSUME \A e \in Deliveries : Equipped(e), NEW d \in Deliveries, Equipped(d)',
         \A e \in Deliveries \ {d} : delivery'[e] = delivery[e] /\ restore'[e] = restore[e]
  PROVE  \A e \in Deliveries : Equipped(e)'
<1>1. SUFFICES ASSUME NEW e \in Deliveries, e # d PROVE Equipped(e)'
  OBVIOUS
<1>2. delivery'[e] = delivery[e] /\ restore'[e] = restore[e] /\ Equipped(e)
  BY <1>1
<1> QED BY <1>2 DEF Equipped, Idle

\* The first state has the types of the delivery.
LEMMA TextInit ==
  ASSUME Init
  PROVE  TextTypeOK
<1>1. clip \in Clipboard
  BY DEF Init, Clipboard, Reading, Source, Person
<1>2. delivery \in [Deliveries -> Delivery] /\ restore \in [Deliveries -> Restore]
  BY Started, RestoreFields DEF Init
<1>3. \A d \in Deliveries : Equipped(d)
  BY DEF Init, Equipped, Idle, Resting
<1> QED BY <1>1, <1>2, <1>3 DEF Init, TextTypeOK

\* Every step leaves the delivery of texts in its types.
LEMMA TextTypes ==
  ASSUME TextTypeOK, [Next]_vars
  PROVE  TextTypeOK'
<1> USE DEF TextTypeOK
<1>0. /\ \A d \in Deliveries : delivery[d] \in Delivery /\ restore[d] \in Restore
      /\ Capture \in Clipboard /\ Blank \in Clipboard /\ clip.by \in Source
  BY CaptureTypes
<1>1. ASSUME NEW d \in Deliveries, NEW what, Ends(d, what), what \in {"none", "left", "failed"},
             UNCHANGED restore
      PROVE  /\ delivery' \in [Deliveries -> Delivery]
             /\ outcome' \in [Deliveries -> {"none", "left", "failed"}]
             /\ \A e \in Deliveries : Equipped(e)'
  BY <1>0, <1>1, Started DEF Ends, Equipped, Idle, Resting
<1>2. ASSUME NEW d \in Deliveries, NEW at \in Stage, Goes(d, at), UNCHANGED restore,
             at \in {"done", "idle", "settling", "capturing", "pasted"}, ~Idle(d),
             at = "settling" => delivery[d].at = "kept"
      PROVE  delivery' \in [Deliveries -> Delivery]
  BY <1>0, <1>2, DeliveryFields DEF Goes
<1>3. ASSUME NEW what \in Copied, Copy(what) PROVE TextTypeOK'
  <2>1. clip' \in Clipboard /\ copies' \in Nat
    BY <1>3 DEF Copy, Copied, Clipboard, Reading, Source, Person
  <2> QED BY <1>3, <2>1 DEF Copy, Equipped, Idle
<1>4. ASSUME NEW d \in Deliveries, NEW manner \in Manners, NEW observe \in BOOLEAN,
             Begin(d, manner[1], manner[2], observe)
      PROVE  TextTypeOK'
  <2>1. manner[1] \in BOOLEAN /\ manner[2] \in Words
    BY DEF Manners
  <2>2. delivery' \in [Deliveries -> Delivery]
    <3>1. PICK may \in BOOLEAN : delivery' = [delivery EXCEPT ![d] = [Resting EXCEPT
              !.keep = manner[1], !.word = manner[2], !.observe = observe,
              !.at = IF ~may THEN "falling" ELSE IF manner[1] THEN "keeping" ELSE "deciding"]]
      BY <1>4 DEF Begin, MayPaste
    <3>2. (IF ~may THEN "falling" ELSE IF manner[1] THEN "keeping" ELSE "deciding") \in Stage
      BY DEF Stage
    <3> QED BY <2>1, <3>1, <3>2, Started
  <2>3. \A e \in Deliveries : Equipped(e)'
    BY <1>0, <1>4, <2>1 DEF Begin, Equipped, Idle, Resting
  <2> QED BY <1>4, <2>2, <2>3 DEF Begin
<1>5. ASSUME NEW d \in Deliveries, WriteToStay(d) PROVE TextTypeOK'
  <2>0. Idle(d) = FALSE
    BY <1>5 DEF WriteToStay, Idle
  <2>1. CASE Ends(d, "failed") /\ UNCHANGED clip
    BY <1>1, <1>5, <2>1 DEF WriteToStay
  <2>2. CASE ~(Ends(d, "failed") /\ UNCHANGED clip)
    <3>1. clip' \in Clipboard
      BY <1>5, <1>0, <2>0, <2>2 DEF WriteToStay, Writes, Equipped, Clipboard, Reading, Source, From
    <3> DEFINE at == IF delivery[d].at = "falling" THEN "left" ELSE "kept"
               r == [delivery[d] EXCEPT !.since = copies, !.at = at]
    <3>2. delivery' = [delivery EXCEPT ![d] = r]
      BY <1>5, <1>0, <2>2 DEF WriteToStay
    <3>3. at \in {"left", "kept"} /\ at \in Stage
      BY DEF Stage
    <3> HIDE DEF at
    <3>4. r \in Delivery /\ r.at = at /\ r.word = delivery[d].word /\ r.keep = delivery[d].keep
      <4>1. delivery[d] \in Delivery /\ copies \in Nat
        BY <1>0
      <4>2. r \in Delivery
        BY <3>3, <4>1, DeliveryFields
      <4>3. r.at = at /\ r.word = delivery[d].word /\ r.keep = delivery[d].keep
        BY <4>1, DeliveryReads
      <4> QED BY <4>2, <4>3
    <3>9. /\ restore[d].at = "none" /\ restore[d].holds = None /\ delivery[d].word \in Words
          /\ at = "kept" => delivery[d].keep
      BY <1>5 DEF WriteToStay, Equipped, Idle, at
    <3>5. UNCHANGED restore
      BY <1>5 DEF WriteToStay
    <3> HIDE DEF r
    <3>6. delivery' \in [Deliveries -> Delivery] /\ delivery'[d] = r
      BY <3>2, <3>4
    <3>7. Equipped(d)'
      <4>1. delivery'[d].at = at /\ delivery'[d].word \in Words /\ (at = "kept" => delivery'[d].keep)
            /\ restore'[d].at = "none" /\ restore'[d].holds = None
        BY <3>4, <3>5, <3>6, <3>9
      <4> QED BY <4>1, <3>3 DEF Equipped, Idle
    <3>8. \A e \in Deliveries : Equipped(e)'
      BY <3>2, <3>5, <3>7, EquippedStays
    <3> QED BY <1>5, <2>2, <3>1, <3>6, <3>8 DEF WriteToStay
  <2> QED BY <2>1, <2>2
<1>6. ASSUME NEW d \in Deliveries, EndBorrow(d) PROVE TextTypeOK'
  <2>1. CASE Ends(d, "left")
    BY <1>1, <1>6, <2>1 DEF EndBorrow
  <2>2. CASE delivery[d].at = "kept" /\ Goes(d, "settling") /\ UNCHANGED outcome
    <3>1. delivery' \in [Deliveries -> Delivery]
      BY <1>0, <2>2, DeliveryFields DEF Goes, Stage
    <3>a. delivery'[d] = [delivery[d] EXCEPT !.at = "settling"] /\ UNCHANGED restore
      BY <1>6, <2>2 DEF EndBorrow, Goes
    <3>b. delivery'[d].at = "settling" /\ delivery'[d].keep = delivery[d].keep
          /\ delivery'[d].word = delivery[d].word
      BY <1>0, <3>a, DeliveryReads
    <3>c. delivery[d].keep
      BY <2>2 DEF Equipped
    <3>d. Equipped(d)'
      BY <2>2, <3>a, <3>b, <3>c DEF Equipped, Idle
    <3>2. \A e \in Deliveries : Equipped(e)'
      BY <2>2, <3>a, <3>d, EquippedStays DEF Goes
    <3> QED BY <1>6, <2>2, <3>1, <3>2 DEF EndBorrow
  <2> QED BY <1>6, <2>1, <2>2 DEF EndBorrow
<1>7. ASSUME NEW d \in Deliveries, Decide(d) PROVE TextTypeOK'
  <2>1. delivery' \in [Deliveries -> Delivery]
    <3> DEFINE inherits == slot # None /\ ~ChangedHands(slot)
    <3>1. inherits \in BOOLEAN /\ (IF inherits THEN "writing" ELSE "capturing") \in Stage
      BY DEF Stage
    <3>2. [delivery[d] EXCEPT !.inherits = inherits, !.at = IF inherits THEN "writing" ELSE "capturing"]
             \in Delivery
      BY <1>0, <3>1, DeliveryFields
    <3>3. delivery' = [delivery EXCEPT ![d] = [delivery[d] EXCEPT !.inherits = inherits,
                                        !.at = IF inherits THEN "writing" ELSE "capturing"]]
      BY <1>7, <1>0 DEF Decide
    <3> HIDE DEF inherits
    <3> QED BY <3>2, <3>3
  <2>a. /\ delivery'[d].at \in {"writing", "capturing"} /\ UNCHANGED restore
        /\ delivery'[d].at = "writing" => delivery'[d].inherits
        /\ delivery'[d].keep = delivery[d].keep /\ delivery'[d].word = delivery[d].word
    BY <1>7, <1>0 DEF Decide, Delivery
  <2>b. delivery[d].at = "deciding"
    BY <1>7 DEF Decide
  <2>c. Equipped(d)'
    BY <2>a, <2>b DEF Equipped, Idle
  <2>2. \A e \in Deliveries : Equipped(e)'
    BY <1>7, <2>c, EquippedStays DEF Decide
  <2> QED BY <1>7, <2>1, <2>2 DEF Decide
<1>8. ASSUME NEW d \in Deliveries, Captures(d) PROVE TextTypeOK'
  <2>1. delivery' \in [Deliveries -> Delivery]
    <3>1. [delivery[d] EXCEPT !.owes = Capture, !.at = "writing"] \in Delivery
      BY <1>0, DeliveryFields DEF Stage
    <3>2. delivery' = [delivery EXCEPT ![d] = [delivery[d] EXCEPT !.owes = Capture, !.at = "writing"]]
      BY <1>8, <1>0 DEF Captures
    <3> QED BY <3>1, <3>2
  <2>2. \A e \in Deliveries : Equipped(e)'
    BY <1>8, <1>0 DEF Captures, Equipped, Idle
  <2> QED BY <1>8, <2>1, <2>2 DEF Captures
<1>9. ASSUME NEW d \in Deliveries, Write(d) PROVE TextTypeOK'
  <2>1. CASE Ends(d, "failed") /\ clip' = IF platform = "macos" THEN Blank ELSE clip
    BY <1>0, <1>1, <1>9, <2>1 DEF Write
  <2>2. CASE Writes(d) /\ UNCHANGED outcome
             /\ delivery' = [delivery EXCEPT ![d].at = "taking", ![d].since = copies]
    <3>1. clip' \in Clipboard
      BY <1>9, <1>0, <2>2 DEF Write, Writes, Equipped, Clipboard, Reading, Source, From, Idle
    <3>2. delivery' \in [Deliveries -> Delivery]
      BY <1>0, <2>2, DeliveryFields DEF Stage
    <3>3. \A e \in Deliveries : Equipped(e)'
      BY <1>9, <1>0, <2>2 DEF Write, Equipped, Idle
    <3> QED BY <1>9, <2>2, <3>1, <3>2, <3>3 DEF Write
  <2> QED BY <1>9, <2>1, <2>2 DEF Write
<1>10. ASSUME NEW d \in Deliveries, Take(d) PROVE TextTypeOK'
  <2> DEFINE owed == IF ~delivery[d].inherits THEN delivery[d].owes
                     ELSE IF slot # None THEN slot.owes ELSE Capture
  <2>1. owed \in Clipboard
    BY <1>10, <1>0, BorrowFields DEF Take, Equipped
  <2>2. delivery' = [delivery EXCEPT ![d] = [delivery[d] EXCEPT !.at = "settling", !.token = clip.by,
                                                                !.owes = owed]]
    BY <1>10, <1>0 DEF Take
  <2> HIDE DEF owed
  <2>3. [delivery[d] EXCEPT !.at = "settling", !.token = clip.by, !.owes = owed] \in Delivery
    BY <1>0, <2>1, DeliveryFields DEF Stage
  <2>4. delivery' \in [Deliveries -> Delivery]
    BY <2>2, <2>3
  <2>a. /\ delivery'[d].at = "settling" /\ delivery'[d].owes = owed /\ UNCHANGED restore
        /\ delivery'[d].keep = delivery[d].keep /\ delivery'[d].word = delivery[d].word
    <3>1. delivery[d] \in Delivery /\ UNCHANGED restore
      BY <1>0, <1>10 DEF Take
    <3>2. delivery'[d] = [delivery[d] EXCEPT !.at = "settling", !.token = clip.by, !.owes = owed]
      BY <2>2
    <3> QED BY <3>1, <3>2, DeliveryReads
  <2>b. delivery[d].at = "taking"
    BY <1>10 DEF Take
  <2>c. Equipped(d)'
    BY <2>1, <2>a, <2>b DEF Equipped, Idle
  <2>5. \A e \in Deliveries : Equipped(e)'
    BY <1>10, <2>2, <2>c, EquippedStays DEF Take
  <2> QED BY <1>10, <2>4, <2>5 DEF Take
<1>11. ASSUME NEW d \in Deliveries, Paste(d) PROVE TextTypeOK'
  <2>1. CASE Ends(d, "left") /\ UNCHANGED <<slot, restore>>
    BY <1>1, <1>11, <2>1 DEF Paste
  <2>2. CASE Goes(d, "pasted")
    <3>1. delivery' \in [Deliveries -> Delivery]
      BY <1>0, <2>2, DeliveryFields DEF Goes, Stage
    <3>2. ~delivery[d].keep => Borrow(d) \in Borrowing
      BY <1>11, <1>0, DeliveryFields DEF Paste, Borrow, Borrowing, Equipped, Idle
    <3>3. restore' \in [Deliveries -> Restore]
      BY <1>11, <1>0, <2>2, RestoreFields DEF Paste, Ends
    <3>a. /\ delivery'[d].at = "pasted" /\ delivery[d].at = "settling"
          /\ delivery'[d].keep = delivery[d].keep /\ delivery'[d].word = delivery[d].word
          /\ \A e \in Deliveries \ {d} : delivery'[e] = delivery[e]
      BY <1>11, <1>0, <2>2 DEF Paste, Goes, Delivery
    <3>b. /\ restore'[d].holds = restore[d].holds
          /\ restore[d].at = "none" /\ restore'[d].at \in {"none", "waiting"}
          /\ \A e \in Deliveries \ {d} : restore'[e] = restore[e]
      <4>1. delivery[d].at # "done" /\ restore[d].at = "none"
        BY <1>11 DEF Paste, Equipped
      <4>2. delivery'[d] # [Resting EXCEPT !.at = "done"]
        BY <1>0, <2>2, <4>1 DEF Goes, Resting, Delivery
      <4>3. CASE UNCHANGED restore
        BY <4>1, <4>3
      <4>4. CASE restore' = [restore EXCEPT ![d].at = "waiting"]
        BY <1>0, <4>1, <4>4 DEF Restore
      <4> QED BY <1>11, <1>0, <4>3, <4>4 DEF Paste
    <3>c. Equipped(d)'
      BY <3>a, <3>b DEF Equipped, Idle
    <3>4. \A e \in Deliveries : Equipped(e)'
      BY <3>a, <3>b, <3>c, EquippedStays
    <3> QED BY <1>11, <2>2, <3>1, <3>2, <3>3, <3>4 DEF Paste, Ends
  <2> QED BY <1>11, <2>1, <2>2 DEF Paste
<1>12. ASSUME NEW d \in Deliveries, Return(d) PROVE TextTypeOK'
  BY <1>1, <1>12 DEF Return
<1>13. ASSUME NEW d \in Deliveries, Wake(d) PROVE TextTypeOK'
  BY <1>13, <1>0, RestoreFields, BorrowFields DEF Wake, RestoreGoes, Equipped, Idle
<1>14. ASSUME NEW d \in Deliveries, Check(d) PROVE TextTypeOK'
  <2>1. PICK b \in Borrowing \cup {None}, at \in {"none", "stamping"} :
           /\ restore' = [restore EXCEPT ![d] = [at |-> at, holds |-> b]]
           /\ b # None <=> at = "stamping"
    <3>1. restore[d].at = "checking" /\ restore[d].holds # None /\ restore[d].holds \in Borrowing \cup {None}
      BY <1>14, <1>0, RestoreFields DEF Check, Equipped
    <3> QED BY <1>14, <3>1 DEF Check, RestoreGoes
  <2>2. restore' \in [Deliveries -> Restore] /\ UNCHANGED delivery
    BY <1>14, <2>1, RestoreFields DEF Check
  <2>3. Equipped(d)'
    <3>1. restore[d].at = "checking" /\ Equipped(d)
      BY <1>14 DEF Check
    <3>2. restore'[d].at = at /\ restore'[d].holds = b
      BY <1>0, <2>1
    <3> QED BY <2>1, <2>2, <3>1, <3>2 DEF Equipped, Idle
  <2>4. \A e \in Deliveries : Equipped(e)'
    BY <2>1, <2>2, <2>3, EquippedStays
  <2> QED BY <1>14, <2>2, <2>4 DEF Check
<1>15. ASSUME NEW d \in Deliveries, Stamp(d) PROVE TextTypeOK'
  <2>1. clip' \in Clipboard
    <3>1. restore[d].holds # None /\ restore[d].holds \in Borrowing \cup {None}
      BY <1>15, <1>0, RestoreFields DEF Stamp, Equipped
    <3>2. restore[d].holds.owes \in Clipboard
      BY <3>1, BorrowFields
    <3> QED BY <1>15, <3>2 DEF Stamp
  <2> QED BY <1>15, <1>0, <2>1, RestoreFields DEF Stamp, RestoreGoes, Equipped, Idle
<1>16. CASE UNCHANGED textVars
  BY <1>16 DEF textVars, Equipped, Idle
<1> QED
  BY <1>3, <1>4, <1>5, <1>6, <1>7, <1>8, <1>9, <1>10, <1>11, <1>12, <1>13, <1>14, <1>15, <1>16
     DEF Next, Beside, Writing, Restoring, vars

------------------------------------------------------------------------
(* Why what is learned is sound. *)

USE DEF Name

\* The parts of the invariant, beside its types.
Learned == /\ OneUnderway /\ TargetIsExpected /\ OpensFresh /\ TasksAreSound
           /\ BaselineFirst /\ StrayedIsHarmless /\ RowsAreSound

\* A task is one there was, or a read nobody awaits any more.
Given(t) == \/ t \in tasks
            \/ /\ ~t.awaited /\ t.of = 0 /\ t.at # "hashing"
               /\ t.anchors \in {0, t.generation} /\ (t.at = "taken" => t.generation # 0)

\* What no step of an observation changes.
Aside == UNCHANGED <<delivery, learning, platform>>

\* The target is left as it was, forgotten, spent or given its anchors.
Follows ==
    \/ target' = NoTarget
    \/ /\ target'.of = target.of /\ target'.anchors \in {target.anchors, target.of}
       /\ (target'.left > 0 => target.left > 0)

\* What the types say of the fields the invariant reads.
LEMMA Types ==
  ASSUME ObservationTypeOK
  PROVE  /\ current \in Observation /\ current.of \in Name /\ current.generation \in Name
         /\ current.baselined \in BOOLEAN /\ current.last \subseteq Readings
         /\ \A t \in tasks : t \in Task
         /\ \A d \in Deliveries : landed[d] \in {"no", "landed", "late"}
         /\ 0 \notin Deliveries
  BY ObservationFields DEF ObservationTypeOK

\* What was learned stays sound while the deliveries learned from stay what they are.
LEMMA RowsStay ==
  ASSUME Learned, UNCHANGED rows,
         \A d \in Deliveries : delivery[d].at = "done" /\ landed[d] = "no" /\ d # current.of =>
            delivery'[d].at = "done" /\ landed'[d] = "no" /\ d # current'.of
  PROVE  RowsAreSound'
<1>1. ASSUME NEW c \in Terms, NEW lesson \in rows[c].lessons
      PROVE  /\ lesson.reads = {lesson.of} /\ lesson.of \in Deliveries /\ lesson.of # current'.of
             /\ delivery'[lesson.of].at = "done" /\ landed'[lesson.of] = "no"
  <2>1. /\ lesson.reads = {lesson.of} /\ lesson.of \in Deliveries /\ lesson.of # current.of
        /\ delivery[lesson.of].at = "done" /\ landed[lesson.of] = "no"
    BY DEF Learned, RowsAreSound
  <2> QED BY <2>1
<1>2. ASSUME NEW c \in Terms
      PROVE  /\ rows[c].is = "none" => rows[c].lessons = {}
             /\ rows[c].is = "pending" => \E l \in rows[c].lessons : rows[c].lessons = {l}
             /\ rows[c].is = "active" =>
                   \E l, m \in rows[c].lessons : l.of # m.of /\ rows[c].lessons = {l, m}
  BY DEF Learned, RowsAreSound
<1> QED BY <1>1, <1>2 DEF RowsAreSound

\* A step that closes the observation and leaves no new paste to hear of: all the parts
\* but the one on what is learned.
LEMMA Closing ==
  ASSUME ObservationTypeOK, Learned, Aside, current' = Closed, Follows,
         \A t \in tasks' : Given(t),
         \A d \in Deliveries : landed'[d] # "no" => landed[d] # "no"
  PROVE  /\ OneUnderway' /\ TargetIsExpected' /\ OpensFresh' /\ TasksAreSound'
         /\ BaselineFirst' /\ StrayedIsHarmless'
<1>0. Closed.of = 0 /\ Closed.generation = 0 /\ ~Closed.baselined /\ Closed.last = {}
  BY DEF Closed
<1>a. 0 \notin Deliveries
  BY Types
<1>1. OneUnderway'
  BY DEF Learned, OneUnderway, Underway, Aside
<1>2. TargetIsExpected'
  BY <1>0 DEF Learned, TargetIsExpected, Underway, Aside, Follows, NoTarget
<1>3. OpensFresh'
  BY <1>0, <1>a DEF Learned, OpensFresh, Aside, Given
<1>4. Mine' = {} /\ Awaited' = {}
  BY <1>0 DEF Learned, TasksAreSound, Mine, Awaited, Given
<1>5. TasksAreSound'
  BY <1>4 DEF Learned, TasksAreSound, Given
<1>6. BaselineFirst' /\ StrayedIsHarmless'
  BY <1>0, <1>4 DEF BaselineFirst, StrayedIsHarmless, Strayed
<1> QED BY <1>1, <1>2, <1>3, <1>5, <1>6

\* The same, when nothing is learned either.
LEMMA Closes ==
  ASSUME ObservationTypeOK, Learned, Aside, current' = Closed, Follows, UNCHANGED rows,
         \A t \in tasks' : Given(t),
         \A d \in Deliveries : landed'[d] # "no" => landed[d] # "no"
  PROVE  Learned'
<1>1. \A d \in Deliveries : d # current'.of /\ landed[d] \in {"no", "landed", "late"}
  BY Types DEF Closed
<1>2. RowsAreSound'
  BY <1>1, RowsStay DEF Aside
<1> QED BY <1>2, Closing DEF Learned

\* A step that leaves what the observation has found as it was, and asks for nothing.
LEMMA Bides ==
  ASSUME ObservationTypeOK, Learned, Aside, Follows, UNCHANGED <<rows>>,
         current'.of = current.of, current'.generation = current.generation,
         current'.baselined = current.baselined, current'.last = current.last,
         current = Closed => current' = Closed,
         \A t \in tasks' : Given(t),
         \A d \in Deliveries : /\ landed'[d] # "no" <=> landed[d] # "no"
                               /\ landed'[d] # "landed" \/ landed'[d] = landed[d]
                               /\ landed[d] = "late" => landed'[d] = "late"
  PROVE  Learned'
<1>a. 0 \notin Deliveries /\ current.of \in Name /\ current.generation \in Name
  BY Types
<1>1. OneUnderway'
  BY DEF Learned, OneUnderway, Underway, Aside
<1>2. TargetIsExpected'
  <2>1. \A d \in Deliveries : Underway(d)' <=> Underway(d)
    BY DEF Underway, Aside
  <2>2. target'.anchors \in {0, target'.of} /\ (target'.left > 0 => target'.of # 0)
        /\ target'.of \in {0, target.of}
    BY DEF Learned, TargetIsExpected, Follows, NoTarget
  <2>3. target'.of # 0 => landed'[target'.of] # "no" \/ current'.of \in {0, target'.of}
    <3>1. target'.of # 0 => target.of \in Deliveries
      BY <2>2 DEF ObservationTypeOK
    <3> QED BY <2>2, <3>1 DEF Learned, TargetIsExpected
  <2> QED BY <2>1, <2>2, <2>3 DEF Learned, TargetIsExpected
<1>3. OpensFresh'
  BY <1>a DEF Learned, OpensFresh, Aside, Given
<1>4. /\ \A t \in Mine' : t \in Mine
      /\ \A t \in Awaited' : t \in Awaited
  BY DEF Mine, Awaited, Given
<1>5. TasksAreSound'
  <2>1. SUFFICES ASSUME NEW t \in tasks'
                 PROVE  /\ t.anchors \in {0, t.generation} /\ (t.awaited <=> t.of # 0)
                        /\ t.at = "taken" => t.generation # 0
                        /\ t.at = "taken" /\ t \in Mine' =>
                              t.generation = current'.of \/ landed'[t.generation] # "no"
                        /\ t.at = "hashing" => t.awaited /\ t.reads = {t.of}
    BY DEF TasksAreSound
  <2>2. CASE t \notin tasks
    BY <1>4, <2>2 DEF Given, Mine
  <2>3. CASE t \in tasks
    <3>1. t.generation \in Name
      BY <2>3, Types, TaskFields
    <3> QED BY <1>4, <2>3, <3>1 DEF Learned, TasksAreSound
  <2> QED BY <2>2, <2>3
<1>6. BaselineFirst'
  BY <1>4 DEF Learned, BaselineFirst
<1>7. StrayedIsHarmless'
  <2>1. Strayed' <=> Strayed
    BY DEF Strayed
  <2>2. Awaited' # {} => \A d \in Deliveries : landed'[d] # "landed"
    BY <1>4 DEF Learned, StrayedIsHarmless
  <2>3. Strayed => landed[current.generation] = "late" /\ current.generation \in Deliveries
    BY <1>a DEF Learned, StrayedIsHarmless, Strayed
  <2> QED BY <1>4, <2>1, <2>2, <2>3 DEF Learned, StrayedIsHarmless
<1>8. RowsAreSound'
  BY RowsStay DEF Aside
<1> QED BY <1>1, <1>2, <1>3, <1>5, <1>6, <1>7, <1>8 DEF Learned

\* What setting a field of an observation leaves of the others.
LEMMA ObservationReads ==
  ASSUME NEW o \in Observation, NEW x
  PROVE  /\ LET p == [o EXCEPT !.baselined = x]
            IN  p.of = o.of /\ p.generation = o.generation /\ p.baselined = x /\ p.last = o.last
         /\ LET p == [o EXCEPT !.timers = x]
            IN  p.of = o.of /\ p.generation = o.generation /\ p.baselined = o.baselined /\ p.last = o.last
         /\ LET p == [o EXCEPT !.busy = x]
            IN  p.of = o.of /\ p.generation = o.generation /\ p.baselined = o.baselined /\ p.last = o.last
         /\ LET p == [o EXCEPT !.last = x]
            IN  p.of = o.of /\ p.generation = o.generation /\ p.baselined = o.baselined /\ p.last = x
         /\ LET p == [o EXCEPT !.generation = x]
            IN  p.of = o.of /\ p.generation = x /\ p.baselined = o.baselined /\ p.last = o.last
  BY DEF Observation

\* The page goes on with what a read of its own told: the invariant survives what is new in
\* the observation it keeps and in the task it leaves.
LEMMA Continues ==
  ASSUME ObservationTypeOK, Learned, Aside, Follows, UNCHANGED <<rows, landed>>,
         NEW t \in Mine, NEW new,
         \A s \in tasks' : Given(s) \/ s = new,
         new \in tasks' => /\ Given(new) \/ (/\ new.at = "hashing" /\ new.reads = {t.of} /\ new.awaited
                                             /\ new.anchors = t.anchors /\ new.generation = t.generation
                                             /\ new.of = t.of /\ new.by = t.by),
         current'.of = current.of,
         \/ current'.generation = current.generation
         \/ /\ current.generation = 0 /\ t.at = "taken" /\ current'.generation = t.generation
            /\ t.by \in {"baseline", "retry"},
         \/ current'.baselined = current.baselined
         \/ current'.baselined /\ current'.generation # 0 /\ t.by \in {"baseline", "retry"},
         \/ current'.last = current.last
         \/ /\ current'.generation = current.of /\ current.baselined
            /\ \A read \in current'.last : read.about = current.of
  PROVE  Learned'
<1>a. 0 \notin Deliveries /\ current.of \in Name /\ current.generation \in Name
      /\ t.generation \in Name /\ current.of # 0 /\ t.of = current.of /\ t.awaited /\ t \in tasks
  BY Types, TaskFields DEF Mine, Learned, TasksAreSound
<1>b. \A s \in tasks' : Given(s) \/ /\ s.at = "hashing" /\ s.reads = {t.of} /\ s.awaited
                                    /\ s.anchors = t.anchors /\ s.generation = t.generation
                                    /\ s.of = t.of /\ s.by = t.by
  OBVIOUS
<1>1. OneUnderway'
  BY DEF Learned, OneUnderway, Underway, Aside
<1>2. TargetIsExpected'
  <2>1. \A d \in Deliveries : Underway(d)' <=> Underway(d)
    BY DEF Underway, Aside
  <2>2. target'.anchors \in {0, target'.of} /\ (target'.left > 0 => target'.of # 0)
        /\ target'.of \in {0, target.of}
    BY DEF Learned, TargetIsExpected, Follows, NoTarget
  <2>3. target'.of # 0 => landed'[target'.of] # "no" \/ current'.of \in {0, target'.of}
    BY <2>2 DEF Learned, TargetIsExpected
  <2> QED BY <2>1, <2>2, <2>3 DEF Learned, TargetIsExpected
<1>3. OpensFresh'
  <2>1. \A d \in Deliveries : delivery'[d].at # "done" \/ landed'[d] # "no" =>
           /\ delivery[d].at # "done" \/ landed[d] # "no"
           /\ d # 0 /\ current.of # d /\ \A s \in tasks : s.of # d
    BY <1>a DEF Learned, OpensFresh, Aside
  <2>2. \A s \in tasks' : s \in tasks \/ s.of = 0 \/ s.of = current.of
    BY <1>a, <1>b DEF Given
  <2> QED BY <1>a, <2>1, <2>2 DEF OpensFresh
<1>4. \A s \in Mine' : s \in Mine \/ (s.at = "hashing" /\ s.by = t.by)
  BY <1>b DEF Mine, Given
<1>5. TasksAreSound'
  BY <1>a, <1>b DEF Learned, TasksAreSound, Given, Mine
<1>6. BaselineFirst'
  <2>1. current'.baselined => current'.generation # 0
    BY <1>a DEF Learned, BaselineFirst, TasksAreSound
  <2>2. ~current'.baselined => current'.last = {} /\ \A s \in Mine' : s.by \in {"baseline", "retry"}
    BY <1>4, Types DEF Learned, BaselineFirst
  <2> QED BY <2>1, <2>2 DEF BaselineFirst
<1>7. StrayedIsHarmless'
  <2>1. Awaited' # {} => \A d \in Deliveries : landed'[d] # "landed"
    BY <1>a, <1>b DEF Learned, StrayedIsHarmless, Awaited, Given
  <2>2. Strayed' => landed'[current'.generation] = "late"
    <3>1. CASE current'.generation = current.generation
      BY <3>1 DEF Strayed, Learned, StrayedIsHarmless
    <3>2. CASE current'.generation # current.generation
      <4>1. t \in Awaited
        BY <1>a, <3>2 DEF Awaited
      <4>2. Strayed' => landed[t.generation] # "no" /\ t.generation \in Deliveries
        BY <1>a, <3>2 DEF Strayed, Learned, TasksAreSound
      <4> QED BY <3>2, <4>1, <4>2, Types DEF Learned, StrayedIsHarmless
    <3> QED BY <3>1, <3>2
  <2>3. Strayed' => current'.last = {}
    <3>1. CASE current'.generation = current.generation
      BY <1>a, <3>1 DEF Strayed, Learned, StrayedIsHarmless
    <3>2. CASE current'.generation # current.generation
      BY <1>a, <3>2, Types DEF Strayed, Learned, BaselineFirst
    <3> QED BY <3>1, <3>2
  <2>4. Strayed' => \A s \in Mine' : s.by \in {"baseline", "retry", "next"}
    <3>1. CASE current'.generation = current.generation
      BY <1>4, <3>1 DEF Strayed, Learned, StrayedIsHarmless
    <3>2. CASE current'.generation # current.generation
      BY <1>4, <3>2, Types DEF Learned, BaselineFirst
    <3> QED BY <3>1, <3>2
  <2>5. \A read \in current'.last : read.about = current'.of
    BY DEF Learned, StrayedIsHarmless
  <2> QED BY <2>1, <2>2, <2>3, <2>4, <2>5 DEF StrayedIsHarmless
<1>8. RowsAreSound'
  BY DEF Learned, RowsAreSound, Aside
<1> QED BY <1>1, <1>2, <1>3, <1>5, <1>6, <1>7, <1>8 DEF Learned

\* A read that is answered, whatever it is answered with.
LEMMA Resumes ==
  ASSUME ObservationTypeOK, Learned, Aside, Follows, UNCHANGED <<rows, landed>>,
         NEW t \in tasks, t.at # "hashing", NEW a \in Answered, NEW rest, Resume(t, a, rest),
         \A s \in rest : Given(s),
         a.generation # 0 => t.at = "taken" /\ a.generation = t.generation,
         a.is = "span" => a.generation # 0 /\ a.about = a.generation
  PROVE  Learned'
<1>0. /\ current \in Observation /\ Named(a) \in Observation /\ Named(a).of = current.of
      /\ Named(a).generation = IF current.generation = 0 THEN a.generation ELSE current.generation
      /\ Named(a).baselined = current.baselined /\ Named(a).last = current.last
  BY Types, ObservationFields, ObservationReads DEF Named, Answered
<1>1. CASE ~(t.awaited /\ t.of = current.of)
  BY <1>1, Bides DEF Resume
<1>2. CASE current' = Closed /\ tasks' = rest
  BY <1>2, Closes
<1>3. CASE t \in Mine /\ BaselineResumes(t, a) /\ tasks' = rest /\ t.by \in {"baseline", "retry"}
  <2>1. CASE Ours(a) /\ a.is = "span" /\ Stays([Named(a) EXCEPT !.baselined = TRUE])
    <3>1. /\ current'.of = current.of /\ current'.generation = Named(a).generation
          /\ current'.baselined /\ current'.last = current.last
      BY <1>0, <2>1, ObservationReads DEF Stays
    <3>2. current'.generation # 0
      BY <1>0, <2>1, <3>1 DEF Ours
    <3> QED BY <1>0, <1>3, <3>1, <3>2, Continues
  <2>2. CASE Stays([Named(a) EXCEPT !.timers = @ \cup {"retry"}])
    <3>1. /\ current'.of = current.of /\ current'.generation = Named(a).generation
          /\ current'.baselined = current.baselined /\ current'.last = current.last
      BY <1>0, <2>2, ObservationReads DEF Stays
    <3> QED BY <1>0, <1>3, <3>1, Continues
  <2>3. CASE Close(Named(a))
    BY <1>2, <1>3, <2>3 DEF Close
  <2> QED BY <1>3, <2>1, <2>2, <2>3 DEF BaselineResumes
<1>4. CASE t \in Mine /\ CheckResumes(t, a, rest) /\ t.by \notin {"baseline", "retry"}
  <2> DEFINE o == [Named(a) EXCEPT !.busy = FALSE]
             same == {read \in o.last : read.key = a.key}
             hash == [t EXCEPT !.at = "hashing", !.key = a.key, !.reads =
                                  {a.about} \cup {read.about : read \in same}]
  <2>0. /\ o \in Observation /\ o.of = current.of /\ o.generation = Named(a).generation
        /\ o.baselined = current.baselined /\ o.last = current.last
    <3>1. o \in Observation
      BY <1>0, ObservationFields
    <3>2. /\ o.of = Named(a).of /\ o.generation = Named(a).generation
          /\ o.baselined = Named(a).baselined /\ o.last = Named(a).last
      BY <1>0, ObservationReads
    <3> QED BY <1>0, <3>1, <3>2
  <2>1. current.baselined /\ current.generation # 0
    BY <1>4, Types DEF Learned, BaselineFirst
  <2>2. CASE Ours(a) /\ a.is = "span" /\ same # {} /\ Stays(o) /\ tasks' = rest \cup {hash}
    <3>1. current.generation = current.of
      BY <2>0, <2>1, <2>2 DEF Learned, StrayedIsHarmless, Strayed
    <3>2. a.about = current.of
      BY <1>0, <2>1, <2>2, <3>1 DEF Ours
    <3>3. \A read \in same : read.about = current.of
      BY <2>0 DEF Learned, StrayedIsHarmless
    <3>4. {a.about} \cup {read.about : read \in same} = {t.of}
      BY <1>4, <3>2, <3>3 DEF Mine
    <3>5. /\ hash.at = "hashing" /\ hash.reads = {t.of} /\ hash.awaited = t.awaited
          /\ hash.anchors = t.anchors /\ hash.generation = t.generation
          /\ hash.of = t.of /\ hash.by = t.by
      BY <3>4 DEF ObservationTypeOK, Task
    <3>6. current'.of = current.of /\ current'.generation = current.generation
          /\ current'.baselined = current.baselined /\ current'.last = current.last
      BY <1>0, <2>0, <2>1, <2>2 DEF Stays
    <3> HIDE DEF o, same, hash
    <3> QED BY <1>4, <2>2, <3>5, <3>6, Continues DEF Mine
  <2>3. CASE Ours(a) /\ a.is = "span" /\ t.by \notin LastChance /\ tasks' = rest
             /\ Stays([o EXCEPT !.last = {[key |-> a.key, about |-> a.about]}])
    <3>1. ~Strayed
      BY <1>4, <2>3 DEF Learned, StrayedIsHarmless, LastChance
    <3>2. current.generation = current.of
      BY <2>1, <3>1 DEF Strayed
    <3>3. a.about = current.of
      BY <1>0, <2>1, <2>3, <3>2 DEF Ours
    <3>4. current'.of = current.of /\ current'.generation = current.generation
          /\ current'.baselined = current.baselined
          /\ current'.last = {[key |-> a.key, about |-> a.about]}
      <4>1. current' = [o EXCEPT !.last = {[key |-> a.key, about |-> a.about]}]
        BY <2>3 DEF Stays
      <4> HIDE DEF o, same, hash
      <4>2. /\ current'.of = o.of /\ current'.generation = o.generation
            /\ current'.baselined = o.baselined
            /\ current'.last = {[key |-> a.key, about |-> a.about]}
        BY <2>0, <4>1, ObservationReads
      <4> QED BY <1>0, <2>0, <2>1, <4>2
    <3>5. \A read \in current'.last : read.about = current.of
      BY <3>3, <3>4
    <3> HIDE DEF o, same, hash
    <3> QED BY <1>4, <2>1, <2>3, <3>2, <3>4, <3>5, Continues
  <2>4. CASE Close(o) /\ tasks' = rest
    BY <1>2, <2>4 DEF Close
  <2> QED BY <1>4, <2>2, <2>3, <2>4 DEF CheckResumes
<1> QED BY <1>1, <1>3, <1>4 DEF Resume, Mine

\* A read that is asked for: before the first answer by the schedule's first steps alone,
\* and never by a timer once the observation strayed.
LEMMA Asking ==
  ASSUME ObservationTypeOK, Learned, Aside, UNCHANGED <<target, rows>>,
         NEW o \in Observation, NEW by \in Timer \cup {"next"}, Asks(o, by), current.of # 0,
         o.of = current.of, o.generation = current.generation,
         o.baselined = current.baselined, o.last = current.last,
         current.baselined \/ by \in {"baseline", "retry"},
         by = "next" \/ (~Strayed /\ \A d \in Deliveries : landed'[d] # "landed"),
         \A d \in Deliveries : /\ landed'[d] # "no" <=> landed[d] # "no"
                               /\ landed'[d] # "landed" \/ landed'[d] = landed[d]
                               /\ landed[d] = "late" => landed'[d] = "late"
  PROVE  Learned'
<1> DEFINE new == [of |-> o.of, by |-> by, at |-> "asked", awaited |-> TRUE,
                   generation |-> 0, anchors |-> 0, key |-> {}, reads |-> {}]
<1>0. /\ current' = o /\ tasks' = tasks \cup {new}
      /\ new.of = current.of /\ new.by = by /\ new.at = "asked" /\ new.awaited
      /\ new.generation = 0 /\ new.anchors = 0
  BY DEF Asks, Stays
<1> HIDE DEF new
<1>a. 0 \notin Deliveries /\ current.of \in Name /\ current.generation \in Name
  BY Types
<1>1. OneUnderway'
  BY DEF Learned, OneUnderway, Underway, Aside
<1>2. TargetIsExpected'
  <2>1. \A d \in Deliveries : Underway(d)' <=> Underway(d)
    BY DEF Underway, Aside
  <2>2. target.of # 0 => target.of \in Deliveries
    BY DEF ObservationTypeOK
  <2> QED BY <1>0, <2>1, <2>2 DEF Learned, TargetIsExpected
<1>3. OpensFresh'
  BY <1>a, <1>0 DEF Learned, OpensFresh, Aside
<1>4. /\ \A t \in Mine' : t \in Mine \/ t = new
      /\ \A t \in Awaited' : t \in Awaited \/ by # "next"
  BY <1>0 DEF Mine, Awaited
<1>5. TasksAreSound'
  <2>1. \A t \in tasks : t.generation \in Name
    BY Types, TaskFields
  <2> QED BY <1>0, <1>4, <2>1 DEF Learned, TasksAreSound
<1>6. BaselineFirst'
  BY <1>0, <1>4 DEF Learned, BaselineFirst
<1>7. StrayedIsHarmless'
  <2>1. Strayed' <=> Strayed
    BY <1>0 DEF Strayed
  <2>2. Awaited' # {} => \A d \in Deliveries : landed'[d] # "landed"
    BY <1>4 DEF Learned, StrayedIsHarmless
  <2>3. Strayed => landed[current.generation] = "late" /\ current.generation \in Deliveries
    BY <1>a DEF Learned, StrayedIsHarmless, Strayed
  <2>4. Strayed => \A t \in Mine' : t.by \in {"baseline", "retry", "next"}
    BY <1>0, <1>4 DEF Learned, StrayedIsHarmless
  <2> QED BY <1>0, <2>1, <2>2, <2>3, <2>4 DEF Learned, StrayedIsHarmless
<1>8. RowsAreSound'
  BY <1>0, RowsStay DEF Aside
<1> QED BY <1>1, <1>2, <1>3, <1>5, <1>6, <1>7, <1>8 DEF Learned

\* A step of what is learned with nothing else happening to the observation.
LEMMA LearningStep ==
  ASSUME Timely, ObservationTypeOK, Learned, Aside, ObservationNext
  PROVE  Learned'
<1>0. /\ current \in Observation /\ current.of \in Name /\ 0 \notin Deliveries
      /\ \A t \in tasks : t \in Task /\ Given(t)
      /\ Follows \/ target' # target
      /\ current.of = 0 => current = Closed
  BY Types DEF Given, Follows, Learned, TargetIsExpected, OpensFresh
<1>1. ASSUME NEW by \in Timer, Fire(by) PROVE Learned'
  <2> DEFINE o == [current EXCEPT !.timers = @ \ {by}]
  <2>1. /\ o \in Observation /\ o.of = current.of /\ o.generation = current.generation
        /\ o.baselined = current.baselined /\ o.last = current.last
    <3>1. o \in Observation
      BY <1>0, ObservationFields
    <3> QED BY <1>0, <3>1, ObservationReads
  <2>2. current.of # 0
    BY <1>0, <1>1 DEF Fire, Closed
  <2>3. ~Strayed
    BY <1>1, Types DEF Fire, Learned, StrayedIsHarmless, Strayed
  <2>4. \A d \in Deliveries : /\ landed'[d] # "landed" /\ (landed'[d] # "no" <=> landed[d] # "no")
                              /\ (landed[d] = "late" => landed'[d] = "late")
    BY <1>1 DEF Fire
  <2>5. UNCHANGED <<target, rows>> /\ Follows /\ (current = Closed => current' = Closed)
    BY <1>1, <1>0, <2>2 DEF Fire, Closed
  <2>6. CASE Asks(o, by) /\ (current.baselined \/ by \in {"baseline", "retry"})
    <3> HIDE DEF o
    <3> QED BY <2>1, <2>2, <2>3, <2>4, <2>5, <2>6, Asking
  <2>7. CASE Close(o) /\ UNCHANGED tasks
    BY <1>0, <2>4, <2>5, <2>7, Closes DEF Close
  <2>8. CASE Stays(o) /\ UNCHANGED tasks
    <3>1. current' = o
      BY <2>8 DEF Stays
    <3> HIDE DEF o
    <3> QED BY <1>0, <2>1, <2>4, <2>5, <2>8, <3>1, Bides
  <2>9. CASE o.baselined /\ Asks([o EXCEPT !.busy = TRUE], by)
    <3> DEFINE p == [o EXCEPT !.busy = TRUE]
    <3>1. p \in Observation
      BY <2>1, ObservationFields
    <3>2. /\ p.of = o.of /\ p.generation = o.generation /\ p.baselined = o.baselined /\ p.last = o.last
      BY <2>1, ObservationReads
    <3>3. Asks(p, by)
      BY <2>9
    <3> HIDE DEF o, p
    <3> QED BY <2>1, <2>2, <2>3, <2>4, <2>5, <2>9, <3>1, <3>2, <3>3, Asking
  <2> QED BY <1>1, <2>6, <2>7, <2>8, <2>9 DEF Fire, Checks
<1>2. CASE DictationStarts
  <2>1. UNCHANGED <<target, landed, rows>> /\ Follows /\ current # Closed /\ current.of # 0
    BY <1>0, <1>2 DEF DictationStarts
  <2>2. CASE Close(current) /\ UNCHANGED tasks
    BY <1>0, <2>1, <2>2, Closes DEF Close
  <2>3. CASE Stays(current) /\ UNCHANGED tasks
    BY <1>0, <2>1, <2>3, Bides DEF Stays
  <2>4. CASE current.baselined /\ Asks([current EXCEPT !.busy = TRUE], "next")
    <3> DEFINE p == [current EXCEPT !.busy = TRUE]
    <3>1. p \in Observation
      BY <1>0, ObservationFields
    <3>2. /\ p.of = current.of /\ p.generation = current.generation
          /\ p.baselined = current.baselined /\ p.last = current.last
      BY <1>0, ObservationReads
    <3>3. Asks(p, "next")
      BY <2>4
    <3> HIDE DEF p
    <3> QED BY <2>1, <2>4, <3>1, <3>2, <3>3, Asking
  <2> QED BY <1>2, <2>2, <2>3, <2>4 DEF DictationStarts, Checks
<1>3. ASSUME NEW t \in tasks, GiveUp(t) PROVE Learned'
  <2> DEFINE stray == [t EXCEPT !.awaited = FALSE, !.of = 0, !.by = "nobody"]
  <2>1. /\ stray.awaited = FALSE /\ stray.of = 0 /\ stray.at = t.at /\ stray.anchors = t.anchors
        /\ stray.generation = t.generation
    BY <1>0 DEF Task
  <2>2. Given(stray)
    BY <1>3, <2>1 DEF Given, GiveUp, Learned, TasksAreSound
  <2>3. Unavailable(0) \in Answered /\ Unavailable(0).generation = 0 /\ Unavailable(0).is # "span"
    BY DEF Unavailable, Answered
  <2>4. Resume(t, Unavailable(0), (tasks \ {t}) \cup {stray}) /\ UNCHANGED <<target, landed, rows>>
        /\ t.at # "hashing"
    BY <1>3 DEF GiveUp
  <2> HIDE DEF stray
  <2> QED BY <1>0, <2>2, <2>3, <2>4, Resumes
<1>4. ASSUME NEW t \in tasks, Answers(t) PROVE Learned'
  <2>1. t.at = "taken" /\ UNCHANGED <<landed, rows>> /\ t \in Task /\ t.generation \in Name
        /\ t.generation # 0 /\ t.anchors \in {0, t.generation}
    BY <1>0, <1>4, TaskFields DEF Answers, Learned, TasksAreSound
  <2>2. Follows
    <3>1. UNCHANGED target \/ /\ t.generation = target.of
                              /\ target' = [target EXCEPT !.anchors = t.generation]
      BY <1>4 DEF Answers, KeepAnchors
    <3>2. target \in Targets
      BY DEF ObservationTypeOK, Targets
    <3> QED BY <3>1, <3>2 DEF Follows, Targets
  <2>3. CASE Resume(t, Unavailable(t.generation), tasks \ {t})
    <3>1. /\ Unavailable(t.generation) \in Answered /\ Unavailable(t.generation).is # "span"
          /\ Unavailable(t.generation).generation = t.generation
      BY <2>1 DEF Unavailable, Answered
    <3> QED BY <1>0, <2>1, <2>2, <2>3, <3>1, Resumes
  <2>4. ASSUME NEW key \in SUBSET Terms,
               Resume(t, [is |-> "span", generation |-> t.generation, key |-> key,
                          about |-> IF t.anchors = 0 THEN t.generation ELSE t.anchors], tasks \ {t})
        PROVE  Learned'
    <3> DEFINE a == [is |-> "span", generation |-> t.generation, key |-> key,
                     about |-> IF t.anchors = 0 THEN t.generation ELSE t.anchors]
    <3>1. a \in Answered /\ a.generation = t.generation /\ a.about = t.generation
      BY <2>1 DEF Answered
    <3>2. Resume(t, a, tasks \ {t})
      BY <2>4
    <3> HIDE DEF a
    <3> QED BY <1>0, <2>1, <2>2, <3>1, <3>2, Resumes
  <2>5. \A key \in IF t.anchors = 0 THEN {{}} ELSE SUBSET Terms : key \in SUBSET Terms
    OBVIOUS
  <2> QED BY <1>4, <2>3, <2>4, <2>5 DEF Answers
<1>5. ASSUME NEW g \in endings, EndArrives(g) PROVE Learned'
  <2>1. Follows
    BY <1>5, <1>0 DEF EndArrives, Follows, Learned, TargetIsExpected
  <2>2. UNCHANGED <<current, tasks, landed, rows>>
    BY <1>5 DEF EndArrives
  <2> QED BY <1>0, <2>1, <2>2, Bides
<1>6. CASE Cancel
  BY <1>0, <1>6, Closes DEF Cancel, Close, Follows
<1>7. CASE Command
  BY <1>0, <1>7, Closes DEF Command, Close, Follows
<1>8. ASSUME NEW d \in Deliveries, Enters(d) PROVE Learned'
  <2>1. \A e \in Deliveries : landed'[e] # "no" => landed[e] # "no"
    BY <1>8 DEF Enters, ObservationTypeOK
  <2> QED BY <1>0, <1>8, <2>1, Closes DEF Enters, Close, Follows

<1>9. ASSUME NEW c \in Terms, NEW how \in {"accepted", "forgotten"}, Settles(c, how) PROVE Learned'
  <2>1. UNCHANGED <<target, current, tasks, landed, delivery, learning, platform>>
    BY <1>9 DEF Settles, Aside
  <2>2. /\ OneUnderway' /\ TargetIsExpected' /\ OpensFresh' /\ TasksAreSound'
        /\ BaselineFirst' /\ StrayedIsHarmless'
    BY <2>1 DEF Learned, OneUnderway, TargetIsExpected, OpensFresh, TasksAreSound, BaselineFirst,
                StrayedIsHarmless, Underway, Mine, Awaited, Strayed
  <2>3. rows' = [rows EXCEPT ![c] = [is |-> how, lessons |-> {}]]
    BY <1>9 DEF Settles
  <2>4. RowsAreSound'
    <3>1. ASSUME NEW e \in Terms, e # c PROVE rows'[e] = rows[e]
      BY <2>3, <3>1 DEF ObservationTypeOK
    <3>2. rows'[c] = [is |-> how, lessons |-> {}]
      BY <2>3 DEF ObservationTypeOK
    <3> QED BY <2>1, <3>1, <3>2 DEF Learned, RowsAreSound
  <2> QED BY <2>2, <2>4 DEF Learned
<1>10. ASSUME NEW d \in Deliveries, Opens(d) PROVE Learned'
  <2>1. /\ landed[d] # "no" /\ landed' = [landed EXCEPT ![d] = "no"]
        /\ UNCHANGED <<target, tasks, rows, delivery, learning, platform>>
    BY <1>10 DEF Opens, Aside
  <2>2. CASE current' = Closed
    <3>1. \A e \in Deliveries : landed'[e] # "no" => landed[e] # "no"
      BY <2>1 DEF ObservationTypeOK
    <3> QED BY <1>0, <2>1, <2>2, <3>1, Closes DEF Follows
  <2>3. CASE current' = [Closed EXCEPT !.of = d, !.timers = {"baseline", "first", "second", "final"}]
    <3>1. current'.of = d /\ current'.generation = 0 /\ ~current'.baselined /\ current'.last = {}
      BY <2>3 DEF Closed
    <3>2. \A e \in Deliveries : /\ Underway(e)' => Underway(e)
                                /\ landed'[e] = IF e = d THEN "no" ELSE landed[e]
      BY <2>1 DEF Underway, ObservationTypeOK
    <3>3. Underway(d) /\ delivery[d].at = "done" /\ d # 0
      BY <1>0, <2>1 DEF Underway, Learned, OneUnderway
    <3>4. OneUnderway'
      BY <2>1, <3>2 DEF Learned, OneUnderway
    <3>5. TargetIsExpected'
      BY <2>1, <3>1, <3>2, <3>3 DEF Learned, TargetIsExpected
    <3>6. OpensFresh'
      BY <2>1, <3>1, <3>2, <3>3 DEF Learned, OpensFresh
    <3>7. Mine' = {} /\ Awaited' = {}
      BY <2>1, <3>1 DEF Learned, OpensFresh, Mine, Awaited
    <3>8. TasksAreSound'
      BY <2>1, <3>7 DEF Learned, TasksAreSound
    <3>9. BaselineFirst' /\ StrayedIsHarmless'
      BY <3>1, <3>7 DEF BaselineFirst, StrayedIsHarmless, Strayed
    <3>10. RowsAreSound'
      BY <2>1, <3>1, <3>2, RowsStay
    <3> QED BY <3>4, <3>5, <3>6, <3>8, <3>9, <3>10 DEF Learned
  <2> QED BY <1>10, <2>2, <2>3 DEF Opens
<1>11. ASSUME NEW t \in tasks, TakeRead(t) PROVE Learned'
  <2>1. t.at = "asked" /\ UNCHANGED <<landed, rows>>
    BY <1>11 DEF TakeRead
  <2>2. CASE target' = NoTarget /\ Resume(t, Unavailable(0), tasks \ {t})
    <3>1. Unavailable(0) \in Answered /\ Unavailable(0).generation = 0 /\ Unavailable(0).is # "span"
      BY DEF Unavailable, Answered
    <3> QED BY <1>0, <2>1, <2>2, <3>1, Resumes DEF Follows
  <2>3. CASE /\ target.left > 0 /\ target' = [target EXCEPT !.left = @ - 1]
             /\ tasks' = (tasks \ {t}) \cup {[t EXCEPT !.at = "taken", !.generation = target.of,
                                                      !.anchors = target.anchors]}
             /\ UNCHANGED <<current, endings>>
    <3> DEFINE new == [t EXCEPT !.at = "taken", !.generation = target.of, !.anchors = target.anchors]
    <3>1. /\ new.at = "taken" /\ new.generation = target.of /\ new.anchors = target.anchors
          /\ new.of = t.of /\ new.by = t.by /\ new.awaited = t.awaited
      BY <1>0 DEF Task
    <3>2. /\ tasks' = (tasks \ {t}) \cup {new} /\ current' = current
          /\ target'.of = target.of /\ target'.anchors = target.anchors
          /\ UNCHANGED <<landed, rows, delivery, learning, platform>>
      BY <2>1, <2>3 DEF ObservationTypeOK, Aside
    <3>3. target.of # 0 /\ target.of \in Name
      BY <2>3 DEF Learned, TargetIsExpected, ObservationTypeOK
    <3> HIDE DEF new
    <3>4. OneUnderway' /\ RowsAreSound'
      BY <3>2 DEF Learned, OneUnderway, Underway, RowsAreSound
    <3>5. TargetIsExpected'
      BY <3>2, <3>3 DEF Learned, TargetIsExpected, Underway
    <3>6. OpensFresh'
      BY <3>1, <3>2 DEF Learned, OpensFresh
    <3>7. /\ \A s \in Mine' : s \in Mine \/ (s = new /\ t \in Mine)
          /\ \A s \in Awaited' : s \in Awaited \/ (s = new /\ t \in Awaited)
      BY <3>1, <3>2 DEF Mine, Awaited
    <3>8. TasksAreSound'
      <4>1. t \in Mine => current.of # 0 /\ (target.of = current.of \/ landed[target.of] # "no")
        BY <1>0, <3>3 DEF Learned, TargetIsExpected, TasksAreSound, Mine
      <4>2. /\ new.anchors \in {0, new.generation} /\ (new.awaited <=> new.of # 0)
            /\ new.generation # 0
            /\ new \in Mine' => new.generation = current.of \/ landed[new.generation] # "no"
        BY <3>1, <3>2, <3>3, <4>1 DEF Learned, TargetIsExpected, TasksAreSound, Mine
      <4>3. ASSUME NEW s \in tasks
            PROVE  /\ s.anchors \in {0, s.generation} /\ (s.awaited <=> s.of # 0)
                   /\ s.at = "taken" => s.generation # 0
                   /\ s.at = "taken" /\ s \in Mine' =>
                         s.generation = current.of \/ landed[s.generation] # "no"
                   /\ s.at = "hashing" => s.awaited /\ s.reads = {s.of}
        BY <3>2 DEF Learned, TasksAreSound, Mine
      <4> QED BY <3>1, <3>2, <4>2, <4>3 DEF TasksAreSound
    <3>9. BaselineFirst'
      BY <3>1, <3>2, <3>7 DEF Learned, BaselineFirst
    <3>10. StrayedIsHarmless'
      BY <3>1, <3>2, <3>7 DEF Learned, StrayedIsHarmless, Strayed
    <3> QED BY <3>4, <3>5, <3>6, <3>8, <3>9, <3>10 DEF Learned
  <2> QED BY <1>11, <2>2, <2>3 DEF TakeRead
<1>12. ASSUME NEW t \in tasks, Hashed(t) PROVE Learned'
  <2>1. t.at = "hashing" /\ tasks' = tasks \ {t} /\ UNCHANGED <<target, landed>>
        /\ t.awaited /\ t.of # 0 /\ t.reads = {t.of} /\ t.of \in Name
    BY <1>12, <1>0, TaskFields DEF Hashed, Learned, TasksAreSound
  <2>2. CASE UNCHANGED <<current, endings, rows>>
    BY <1>0, <2>1, <2>2, Bides
  <2>3. CASE Close(current) /\ UNCHANGED rows
    BY <1>0, <2>1, <2>3, Closes DEF Close
  <2>4. CASE /\ t.of = current.of /\ Close(current)
             /\ \E held \in SUBSET t.key : Learn(t, Decided(t.key \ held))
    <3> DEFINE lesson == [of |-> t.of, reads |-> t.reads]
    <3>1. PICK terms : /\ \A c \in terms : c \in Terms => rows[c].is \in {"none", "pending"}
                       /\ Learn(t, terms)
      BY <2>4 DEF Decided
    <3>2. ASSUME NEW c \in Terms
          PROVE  /\ c \notin terms => rows'[c] = rows[c]
                 /\ c \in terms => rows'[c].lessons = rows[c].lessons \cup {lesson}
                 /\ c \in terms => rows'[c].is = IF rows[c].is = "pending" THEN "active" ELSE "pending"
      BY <3>1 DEF Learn
    <3>3. lesson.of = current.of /\ lesson.reads = {current.of} /\ current.of \in Deliveries
      BY <2>1, <2>4, <1>0
    <3>4. delivery[current.of].at = "done" /\ landed[current.of] = "no"
      BY <3>3 DEF Learned, OpensFresh
    <3>5. current'.of = 0 /\ UNCHANGED <<delivery, landed>>
      BY <2>1, <2>4 DEF Close, Closed, Aside
    <3> HIDE DEF lesson
    <3>6. RowsAreSound'
      <4>1. ASSUME NEW c \in Terms, NEW l \in rows'[c].lessons
            PROVE  /\ l.reads = {l.of} /\ l.of \in Deliveries /\ l.of # 0
                   /\ delivery[l.of].at = "done" /\ landed[l.of] = "no"
        <5>1. l \in rows[c].lessons \/ l = lesson
          BY <3>2
        <5> QED BY <1>0, <3>3, <3>4, <5>1 DEF Learned, RowsAreSound
      <4>2. ASSUME NEW c \in Terms
            PROVE  /\ rows'[c].is = "none" => rows'[c].lessons = {}
                   /\ rows'[c].is = "pending" => \E l \in rows'[c].lessons : rows'[c].lessons = {l}
                   /\ rows'[c].is = "active" =>
                         \E l, m \in rows'[c].lessons : l.of # m.of /\ rows'[c].lessons = {l, m}
        <5>0. /\ rows[c].is = "none" => rows[c].lessons = {}
              /\ rows[c].is = "pending" => \E l \in rows[c].lessons : rows[c].lessons = {l}
              /\ rows[c].is = "active" =>
                    \E l, m \in rows[c].lessons : l.of # m.of /\ rows[c].lessons = {l, m}
              /\ \A l \in rows[c].lessons : l.of # current.of
          BY DEF Learned, RowsAreSound
        <5>1. CASE c \notin terms
          <6>1. rows'[c] = rows[c]
            BY <3>2, <5>1
          <6> QED BY <5>0, <6>1
        <5>2. CASE c \in terms /\ rows[c].is = "none"
          <6>1. rows'[c].is = "pending" /\ rows'[c].lessons = {lesson}
            BY <3>2, <5>0, <5>2
          <6> QED BY <6>1
        <5>3. CASE c \in terms /\ rows[c].is = "pending"
          <6>1. PICK l \in rows[c].lessons : rows[c].lessons = {l}
            BY <5>0, <5>3
          <6>2. rows'[c].is = "active" /\ rows'[c].lessons = {l, lesson} /\ l.of # lesson.of
            BY <3>2, <3>3, <5>0, <5>3, <6>1
          <6> QED BY <6>2
        <5> QED BY <3>1, <5>1, <5>2, <5>3
      <4> QED BY <3>5, <4>1, <4>2 DEF RowsAreSound
    <3>7. current' = Closed /\ Follows /\ \A s \in tasks' : Given(s)
      BY <1>0, <2>1, <2>4 DEF Close
    <3> QED BY <2>1, <3>6, <3>7, Closing DEF Learned
  <2> QED BY <1>12, <2>2, <2>3, <2>4 DEF Hashed
<1> QED
  BY <1>1, <1>2, <1>3, <1>4, <1>5, <1>6, <1>7, <1>8, <1>9, <1>10, <1>11, <1>12, DueTimers
     DEF ObservationNext, Observes

\* A step of a delivery that neither starts it nor reports its paste.
LEMMA Delivers ==
  ASSUME ObservationTypeOK, Learned, UNCHANGED <<observationVars, learning, platform>>,
         \A d \in Deliveries : /\ delivery[d].at = "done" => delivery'[d].at = "done"
                               /\ delivery'[d].observe => delivery[d].observe
  PROVE  Learned'
<1>0. UNCHANGED <<target, current, tasks, landed, rows>>
  BY DEF observationVars
<1>1. \A d \in Deliveries : Underway(d)' => Underway(d)
  BY <1>0 DEF Underway
<1>2. OneUnderway' /\ TargetIsExpected'
  BY <1>0, <1>1 DEF Learned, OneUnderway, TargetIsExpected
<1>3. OpensFresh'
  BY <1>0 DEF Learned, OpensFresh
<1>4. TasksAreSound' /\ BaselineFirst' /\ StrayedIsHarmless'
  BY <1>0 DEF Learned, TasksAreSound, BaselineFirst, StrayedIsHarmless, Strayed, Mine, Awaited
<1>5. RowsAreSound'
  BY <1>0, RowsStay
<1> QED BY <1>2, <1>3, <1>4, <1>5 DEF Learned

\* What a delivery ended with.
LEMMA EndsReads ==
  ASSUME TextTypeOK, NEW d \in Deliveries, NEW how, Ends(d, how)
  PROVE  /\ delivery'[d].at = "done" /\ ~delivery'[d].observe
         /\ \A e \in Deliveries \ {d} : delivery'[e] = delivery[e]
  BY DEF TextTypeOK, Ends, Resting

\* A delivery begins, and is the only one to be observed.
LEMMA BeginLearned ==
  ASSUME TextTypeOK, ObservationTypeOK, Learned,
         NEW d \in Deliveries, NEW keep, NEW word, NEW observe \in BOOLEAN, Begin(d, keep, word, observe)
  PROVE  Learned'
<1>0. UNCHANGED <<current, tasks, landed, rows, learning, platform>>
  BY DEF Begin
<1>1. /\ delivery[d].at = "idle" /\ delivery'[d].at \in {"falling", "keeping", "deciding"}
      /\ delivery'[d].observe = observe
      /\ \A e \in Deliveries \ {d} : delivery'[e] = delivery[e]
  BY DEF Begin, Resting, TextTypeOK
<1>2. /\ target' = target \/ target' = NoTarget
      /\ platform = "windows" => target' = NoTarget
  BY DEF Begin, BeginDelivery
<1>3. observe => learning /\ \A e \in Deliveries : ~Underway(e)
  BY DEF Begin, MayObserve, Underway
<1>4. \A e \in Deliveries : Underway(e)' => Underway(e) \/ (e = d /\ observe)
  BY <1>0, <1>1 DEF Underway
<1>5. OneUnderway'
  BY <1>0, <1>1, <1>3, <1>4 DEF Learned, OneUnderway
<1>6. TargetIsExpected'
  <2>1. CASE target' = NoTarget
    BY <2>1 DEF TargetIsExpected, NoTarget
  <2>2. CASE target' # NoTarget
    <3>1. target' = target /\ ~observe
      BY <1>2, <1>3, <2>2 DEF Learned, OneUnderway
    <3> QED BY <1>0, <1>4, <3>1 DEF Learned, TargetIsExpected
  <2> QED BY <2>1, <2>2
<1>7. OpensFresh'
  BY <1>0, <1>1 DEF Learned, OpensFresh
<1>8. TasksAreSound' /\ BaselineFirst' /\ StrayedIsHarmless'
  BY <1>0 DEF Learned, TasksAreSound, BaselineFirst, StrayedIsHarmless, Strayed, Mine, Awaited
<1>9. RowsAreSound'
  BY <1>0, <1>1, RowsStay
<1> QED BY <1>5, <1>6, <1>7, <1>8, <1>9 DEF Learned

\* The paste of an observed delivery is reported.
LEMMA ReturnLearned ==
  ASSUME TextTypeOK, ObservationTypeOK, Learned,
         NEW d \in Deliveries, Return(d), delivery[d].observe
  PROVE  Learned'
<1>0. UNCHANGED <<current, tasks, rows, learning, platform>>
  BY DEF Return
<1>1. /\ delivery[d].at = "pasted" /\ delivery'[d].at = "done" /\ ~delivery'[d].observe
      /\ \A e \in Deliveries \ {d} : delivery'[e] = delivery[e]
  BY EndsReads DEF Return
<1>2. /\ landed'[d] = IF Awaited = {} THEN "landed" ELSE "late"
      /\ \A e \in Deliveries \ {d} : landed'[e] = landed[e]
      /\ target' = target \/ target' = [of |-> d, left |-> ReadBudget, anchors |-> 0]
  BY DEF Return, FinishCapture, Armed, ObservationTypeOK
<1>3. Underway(d) /\ landed[d] = "no" /\ d # 0 /\ \A e \in Deliveries : Underway(e) => e = d
  <2>1. Underway(d)
    BY DEF Underway
  <2> QED BY <1>1, <2>1, Types DEF Learned, OneUnderway
<1>4. \A e \in Deliveries : Underway(e)' => e = d
  BY <1>1, <1>2, <1>3 DEF Underway
<1>5. OneUnderway'
  BY <1>0, <1>1, <1>2, <1>3, <1>4 DEF Learned, OneUnderway
<1>6. TargetIsExpected'
  <2>1. target'.of \in {0, d} /\ target'.anchors \in {0, target'.of} /\ (target'.left > 0 => target'.of # 0)
    BY <1>2, <1>3 DEF Learned, TargetIsExpected
  <2> QED BY <1>2, <1>4, <2>1 DEF TargetIsExpected
<1>7. OpensFresh'
  <2>1. current.of # d /\ \A t \in tasks : t.of # d
    BY <1>1 DEF Learned, OpensFresh
  <2> QED BY <1>0, <1>1, <1>2, <2>1 DEF Learned, OpensFresh
<1>8. TasksAreSound'
  <2>1. \A e \in Deliveries : landed[e] # "no" => landed'[e] # "no"
    BY <1>2
  <2>2. \A t \in tasks : t.generation # 0 => t.generation \in Deliveries
    BY TaskFields DEF ObservationTypeOK
  <2> QED BY <1>0, <2>1, <2>2 DEF Learned, TasksAreSound, Mine
<1>9. BaselineFirst'
  BY <1>0 DEF Learned, BaselineFirst, Mine
<1>10. StrayedIsHarmless'
  <2>1. ~Strayed
    BY <1>1, <1>3, Types DEF Learned, StrayedIsHarmless, Strayed, Underway
  <2>2. ~Strayed'
    BY <1>0, <2>1 DEF Strayed
  <2>3. Awaited' # {} => \A e \in Deliveries : landed'[e] # "landed"
    BY <1>0, <1>2 DEF Learned, StrayedIsHarmless, Awaited
  <2> QED BY <1>0, <2>2, <2>3 DEF Learned, StrayedIsHarmless
<1>11. RowsAreSound'
  BY <1>0, <1>1, <1>2, RowsStay
<1> QED BY <1>5, <1>6, <1>7, <1>8, <1>9, <1>10, <1>11 DEF Learned

\* Every step of a delivery leaves the types of the observation.
LEMMA BesideTypes ==
  ASSUME TextTypeOK, ObservationTypeOK, [Next]_vars
  PROVE  ObservationTypeOK'
<1>0. target \in Targets /\ NoTarget \in Targets
  BY Blanks DEF ObservationTypeOK, Targets
<1>1. CASE UNCHANGED observationVars
  BY <1>1 DEF observationVars, ObservationTypeOK
<1>2. CASE ObservationNext
  BY <1>2, ObservationTypes
<1>3. ASSUME NEW d \in Deliveries, NEW keep, NEW word, NEW observe, Begin(d, keep, word, observe)
      PROVE  ObservationTypeOK'
  <2>1. newest' \in Name /\ target' \in Targets
    BY <1>0, <1>3 DEF Begin, BeginDelivery, ObservationTypeOK
  <2> QED BY <1>3, <2>1 DEF Begin, ObservationTypeOK, Targets
<1>4. ASSUME NEW d \in Deliveries, Return(d) PROVE ObservationTypeOK'
  <2>1. target' \in Targets
    <3>1. [of |-> d, left |-> ReadBudget, anchors |-> 0] \in Targets
      BY DEF Targets
    <3> QED BY <1>0, <1>4, <3>1 DEF Return, FinishCapture, Armed
  <2>2. landed' \in [Deliveries -> {"no", "landed", "late"}]
    BY <1>4 DEF Return, FinishCapture, ObservationTypeOK
  <2> QED BY <1>4, <2>1, <2>2 DEF Return, ObservationTypeOK, Targets
<1> QED
  BY <1>1, <1>2, <1>3, <1>4
     DEF Next, Beside, Copy, Writing, Restoring, WriteToStay, EndBorrow, Decide, Captures, Write, Take,
         Paste, Wake, Check, Stamp, besideVars, vars

\* The invariant holds at first.
LEMMA LearningInit ==
  ASSUME Init
  PROVE  LearningInv
<1>1. ObservationTypeOK
  <2>1. rows \in [Terms -> Row]
    BY DEF Init, ObservationInit, Row
  <2>2. target \in Targets
    BY Blanks DEF Init, ObservationInit
  <2>3. current \in Observation
    BY Blanks DEF Init, ObservationInit
  <2> QED BY <2>1, <2>2, <2>3 DEF Init, ObservationInit, ObservationTypeOK, Targets
<1>a. /\ delivery = [d \in Deliveries |-> Resting] /\ ~Resting.observe /\ current.of = 0 /\ current = Closed
      /\ target.of = 0 /\ target.left = 0 /\ target.anchors = 0 /\ tasks = {}
      /\ \A d \in Deliveries : landed[d] = "no" /\ d # 0
  BY Types, <1>1 DEF Init, ObservationInit, Closed, NoTarget, Resting
<1>b. OneUnderway
  BY <1>a DEF Init, OneUnderway, Underway
<1>2. TargetIsExpected /\ OpensFresh /\ TasksAreSound
  BY <1>a DEF TargetIsExpected, OpensFresh, TasksAreSound, Underway
<1>3. BaselineFirst /\ StrayedIsHarmless /\ RowsAreSound
  BY DEF Init, ObservationInit, BaselineFirst, StrayedIsHarmless, RowsAreSound, Strayed, Mine, Awaited,
         Closed
<1> QED BY <1>1, <1>b, <1>2, <1>3 DEF LearningInv

\* And every step keeps it.
LEMMA LearningNext ==
  ASSUME Timely, TextTypeOK, LearningInv, [Next]_vars
  PROVE  LearningInv'
<1>0. ObservationTypeOK /\ Learned /\ delivery \in [Deliveries -> Delivery]
  BY DEF LearningInv, Learned, TextTypeOK
<1>1. ObservationTypeOK'
  BY <1>0, BesideTypes
<1>2. Learned'
  <2>1. CASE UNCHANGED <<observationVars, delivery, learning, platform>>
    BY <1>0, <2>1, Delivers
  <2>2. CASE Beside(ObservationNext)
    BY <1>0, <2>2, LearningStep DEF Beside, Aside, textVars
  <2>3. ASSUME NEW d \in Deliveries, NEW manner \in Manners, NEW observe \in BOOLEAN,
               Begin(d, manner[1], manner[2], observe)
        PROVE  Learned'
    BY <1>0, <2>3, BeginLearned
  <2>4. ASSUME NEW d \in Deliveries, Return(d) PROVE Learned'
    <3>1. CASE delivery[d].observe
      BY <1>0, <2>4, <3>1, ReturnLearned
    <3>2. CASE ~delivery[d].observe
      <4>1. UNCHANGED <<observationVars, learning, platform>>
        BY <2>4, <3>2 DEF Return, observationVars
      <4>2. delivery[d].at = "pasted" /\ \E how : Ends(d, how)
        BY <2>4 DEF Return
      <4> QED BY <1>0, <4>1, <4>2, EndsReads, Delivers
    <3> QED BY <3>1, <3>2
  <2>5. ASSUME NEW d \in Deliveries, Writing(d), ~Return(d) PROVE Learned'
    <3>1. UNCHANGED <<observationVars, learning, platform>> /\ delivery[d].at # "done"
      BY <2>5 DEF Writing, WriteToStay, EndBorrow, Decide, Captures, Write, Take, Paste, besideVars
    <3>2. CASE \E how : Ends(d, how)
      BY <1>0, <3>1, <3>2, EndsReads, Delivers
    <3>3. CASE \E r : delivery' = [delivery EXCEPT ![d] = r] /\ (r.observe => delivery[d].observe)
      BY <1>0, <3>1, <3>3, Delivers
    <3>4. \/ \E how : Ends(d, how)
          \/ \E r : delivery' = [delivery EXCEPT ![d] = r] /\ (r.observe => delivery[d].observe)
      <4>0. delivery[d] \in Delivery
        BY <1>0
      <4>1. /\ \A at : [delivery[d] EXCEPT !.at = at].observe = delivery[d].observe
            /\ \A at, n : [delivery[d] EXCEPT !.since = n, !.at = at].observe = delivery[d].observe
            /\ \A at, n : [delivery[d] EXCEPT !.at = at, !.since = n].observe = delivery[d].observe
            /\ \A at, i : [delivery[d] EXCEPT !.inherits = i, !.at = at].observe = delivery[d].observe
            /\ \A at, owed : [delivery[d] EXCEPT !.owes = owed, !.at = at].observe = delivery[d].observe
            /\ \A at, by, owed :
                  [delivery[d] EXCEPT !.at = at, !.token = by, !.owes = owed].observe = delivery[d].observe
        BY <4>0, DeliveryReads
      <4>2. WriteToStay(d) => (\E how : Ends(d, how)) \/ \E at, n :
               delivery' = [delivery EXCEPT ![d] = [delivery[d] EXCEPT !.since = n, !.at = at]]
        BY <1>0 DEF WriteToStay
      <4>3. EndBorrow(d) \/ Paste(d) => (\E how : Ends(d, how)) \/ \E at :
               delivery' = [delivery EXCEPT ![d] = [delivery[d] EXCEPT !.at = at]]
        BY <1>0 DEF EndBorrow, Paste, Goes
      <4>4. Decide(d) => \E at, i :
               delivery' = [delivery EXCEPT ![d] = [delivery[d] EXCEPT !.inherits = i, !.at = at]]
        BY <1>0 DEF Decide
      <4>5. Captures(d) => \E at, owed :
               delivery' = [delivery EXCEPT ![d] = [delivery[d] EXCEPT !.owes = owed, !.at = at]]
        BY <1>0 DEF Captures
      <4>6. Write(d) => (\E how : Ends(d, how)) \/ \E at, n :
               delivery' = [delivery EXCEPT ![d] = [delivery[d] EXCEPT !.at = at, !.since = n]]
        BY <1>0 DEF Write
      <4>7. Take(d) => \E at, by, owed : delivery' = [delivery EXCEPT ![d] =
                           [delivery[d] EXCEPT !.at = at, !.token = by, !.owes = owed]]
        <5>1. \E owed : Take(d) => delivery' = [delivery EXCEPT ![d].at = "settling", ![d].token = clip.by,
                                                                ![d].owes = owed]
          BY DEF Take
        <5>2. PICK owed : Take(d) => delivery' = [delivery EXCEPT ![d].at = "settling", ![d].token = clip.by,
                                                                ![d].owes = owed]
          BY <5>1
        <5>3. [delivery EXCEPT ![d].at = "settling", ![d].token = clip.by, ![d].owes = owed]
              = [delivery EXCEPT ![d] = [delivery[d] EXCEPT !.at = "settling", !.token = clip.by,
                                                            !.owes = owed]]
          BY <1>0
        <5>4. Take(d) => delivery' = [delivery EXCEPT ![d] =
                           [delivery[d] EXCEPT !.at = "settling", !.token = clip.by, !.owes = owed]]
          BY <5>2, <5>3
        <5> QED BY Zenon, <5>4
      <4> DEFINE Sets(r) == delivery' = [delivery EXCEPT ![d] = r]
                 Kept == \E r : Sets(r) /\ (r.observe => delivery[d].observe)
      <4>8. \A r : Sets(r) /\ r.observe = delivery[d].observe => Kept
        OBVIOUS
      <4> HIDE DEF Sets, Kept
      <4>9. /\ \A at : Sets([delivery[d] EXCEPT !.at = at]) => Kept
            /\ \A at, n : Sets([delivery[d] EXCEPT !.since = n, !.at = at]) => Kept
            /\ \A at, n : Sets([delivery[d] EXCEPT !.at = at, !.since = n]) => Kept
            /\ \A at, i : Sets([delivery[d] EXCEPT !.inherits = i, !.at = at]) => Kept
            /\ \A at, owed : Sets([delivery[d] EXCEPT !.owes = owed, !.at = at]) => Kept
            /\ \A at, by, owed :
                Sets([delivery[d] EXCEPT !.at = at, !.token = by, !.owes = owed]) => Kept
        <5>1. \A at : Sets([delivery[d] EXCEPT !.at = at]) => Kept
          BY <4>1, <4>8
        <5>2. \A at, n : Sets([delivery[d] EXCEPT !.since = n, !.at = at]) => Kept
          BY <4>1, <4>8
        <5>3. \A at, n : Sets([delivery[d] EXCEPT !.at = at, !.since = n]) => Kept
          BY <4>1, <4>8
        <5>4. \A at, i : Sets([delivery[d] EXCEPT !.inherits = i, !.at = at]) => Kept
          BY <4>1, <4>8
        <5>5. \A at, owed : Sets([delivery[d] EXCEPT !.owes = owed, !.at = at]) => Kept
          BY <4>1, <4>8
        <5>6. ASSUME NEW at, NEW by, NEW owed,
                     Sets([delivery[d] EXCEPT !.at = at, !.token = by, !.owes = owed])
              PROVE  Kept
          <6> DEFINE r == [delivery[d] EXCEPT !.at = at, !.token = by, !.owes = owed]
          <6>1. Sets(r) /\ r.observe = delivery[d].observe
            BY <4>1, <5>6
          <6> HIDE DEF r
          <6> QED BY <4>8, <6>1
        <5> QED BY <5>1, <5>2, <5>3, <5>4, <5>5, <5>6
      <4>10. (\E how : Ends(d, how)) \/ Kept
        BY Zenon, <2>5, <4>2, <4>3, <4>4, <4>5, <4>6, <4>7, <4>9 DEF Writing, Sets
      <4> QED BY <4>10 DEF Kept, Sets
    <3> QED BY <3>2, <3>3, <3>4
  <2> QED
    BY <2>1, <2>2, <2>3, <2>4, <2>5
       DEF Next, Restoring, Copy, Wake, Check, Stamp, besideVars, textVars, vars
<1> QED BY <1>1, <1>2 DEF LearningInv, Learned

\* What the invariant says of a term is what the property asks.
LEMMA TwoLessons ==
  ASSUME LearningInv
  PROVE  LessonsAreSound
<1>1. SUFFICES ASSUME NEW c \in Terms
               PROVE  /\ \A lesson \in rows[c].lessons : lesson.reads = {lesson.of}
                      /\ rows[c].is = "active" =>
                            Cardinality({lesson.of : lesson \in rows[c].lessons}) > 1
  BY DEF LessonsAreSound
<1>2. \A lesson \in rows[c].lessons : lesson.reads = {lesson.of}
  BY DEF LearningInv, RowsAreSound
<1>3. ASSUME rows[c].is = "active" PROVE Cardinality({lesson.of : lesson \in rows[c].lessons}) > 1
  <2>1. PICK l, m \in rows[c].lessons : l.of # m.of /\ rows[c].lessons = {l, m}
    BY <1>3 DEF LearningInv, RowsAreSound
  <2>2. {lesson.of : lesson \in rows[c].lessons} = {l.of} \cup {m.of}
    BY <2>1
  <2> DEFINE a == l.of  b == m.of
  <2>3. a # b /\ {lesson.of : lesson \in rows[c].lessons} = {a} \cup {b}
    BY <2>1, <2>2
  <2> HIDE DEF a, b
  <2>4. IsFiniteSet({a}) /\ Cardinality({a}) = 1
    BY FS_Singleton
  <2>5. Cardinality({a} \cup {b}) = IF b \in {a} THEN Cardinality({a}) ELSE Cardinality({a}) + 1
    BY <2>4, FS_AddElement
  <2>6. 2 > 1 /\ 1 + 1 = 2
    OBVIOUS
  <2> QED BY <2>3, <2>4, <2>5, <2>6
<1> QED BY <1>2, <1>3

\* What the state holds is what its variables are for.
THEOREM TypesHold == Spec => [](ObservationTypeOK /\ TextTypeOK)
<1>1. Init => ObservationTypeOK /\ TextTypeOK
  BY LearningInit, TextInit DEF LearningInv
<1>2. ObservationTypeOK /\ TextTypeOK /\ [Next]_vars => (ObservationTypeOK /\ TextTypeOK)'
  BY BesideTypes, TextTypes
<1> QED BY <1>1, <1>2, PTL DEF Spec

\* observer.ts:76-85, rules.ts:153-157 whatever is dictated, corrected, lost or late, a term
\* is learned from reads around the very paste that was observed, and becomes active by
\* itself from two observations: as long as no read outlasts the schedule's steps.
THEOREM TermsAreLearnedSoundly ==
  ASSUME Timely
  PROVE  Spec => []LessonsAreSound
<1>1. Init => LearningInv /\ TextTypeOK
  BY LearningInit, TextInit
<1>2. LearningInv /\ TextTypeOK /\ [Next]_vars => (LearningInv /\ TextTypeOK)'
  BY LearningNext, TextTypes
<1>3. LearningInv => LessonsAreSound
  BY TwoLessons
<1> QED BY <1>1, <1>2, <1>3, PTL DEF Spec

------------------------------------------------------------------------
(* The rows of the learned terms. *)

Kept == {c \in Terms : rows[c].is \in {"pending", "active", "accepted"}}

\* What a decision adds leaves room for, or adds nothing.
LEMMA DecidedFits ==
  ASSUME IsFiniteSet(Terms), RowsAreBounded, NEW t, NEW candidates \in SUBSET Terms,
         Learn(t, Decided(candidates)), rows \in [Terms -> Row]
  PROVE  RowsAreBounded'
<1> DEFINE fresh == {c \in candidates : rows[c].is \in {"none", "pending"}}
           promote == {c \in fresh : rows[c].is = "pending"}
           new == fresh \ promote
<1>1. IsFiniteSet(Kept) /\ IsFiniteSet(new) /\ IsFiniteSet(Kept \cup new)
  BY FS_Subset, FS_Union DEF Kept
<1>2. Kept' = {c \in Terms : rows'[c].is \in {"pending", "active", "accepted"}}
  BY DEF Kept
<1>3. \A c \in Terms : rows'[c] = IF c \notin Decided(candidates) THEN rows[c]
        ELSE [is |-> IF rows[c].is = "pending" THEN "active" ELSE "pending",
              lessons |-> rows[c].lessons \cup {[of |-> t.of, reads |-> t.reads]}]
  BY DEF Learn
<1>4. Kept' \subseteq Kept \cup Decided(candidates)
  BY <1>2, <1>3 DEF Kept
<1>5. Cardinality(Kept) <= MaxRows /\ Cardinality(Kept) = RowCount
  BY DEF RowsAreBounded, RowCount, Kept
<1>6. /\ Cardinality(Kept \cup new) <= Cardinality(Kept) + Cardinality(new)
      /\ Cardinality(Kept) \in Nat /\ Cardinality(new) \in Nat
      /\ Cardinality(Kept \cup new) \in Nat
  <2>1. IsFiniteSet(Kept \cap new)
    BY <1>1, FS_Subset
  <2>2. Cardinality(Kept \cup new) = Cardinality(Kept) + Cardinality(new) - Cardinality(Kept \cap new)
    BY <1>1, FS_Union
  <2> QED BY <1>1, <2>1, <2>2, FS_CardinalityType
<1>7. promote \subseteq Kept /\ fresh \subseteq Kept \cup new
  BY DEF Kept
<1>8. Decided(candidates) \in {{}, promote, fresh}
      /\ (Decided(candidates) = fresh =>
            fresh \subseteq Kept \/ RowCount + Cardinality(new) <= MaxRows)
  <2>1. CASE RowCount >= MaxRows \/ Cardinality(fresh) > MaxTerms
    BY <2>1 DEF Decided
  <2>2. CASE /\ ~(RowCount >= MaxRows \/ Cardinality(fresh) > MaxTerms)
             /\ RowCount + Cardinality(new) > MaxRows
    <3>1. Decided(candidates) = promote
      BY <2>2 DEF Decided
    <3> QED BY <3>1, <1>7
  <2>3. CASE /\ ~(RowCount >= MaxRows \/ Cardinality(fresh) > MaxTerms)
             /\ ~(RowCount + Cardinality(new) > MaxRows)
    <3>1. Decided(candidates) = fresh
      BY <2>3 DEF Decided
    <3> QED BY <2>3, <3>1, <1>5, <1>6, ObservationBoundsAssumption
  <2> QED BY <2>1, <2>2, <2>3
<1> HIDE DEF fresh, promote, new
<1>9. Cardinality(Kept') <= MaxRows
  <2>1. CASE Kept' \subseteq Kept
    <3>1. Cardinality(Kept') <= Cardinality(Kept) /\ IsFiniteSet(Kept')
      BY <1>1, <2>1, FS_Subset
    <3> QED BY <1>5, <1>6, <3>1, FS_CardinalityType, ObservationBoundsAssumption
  <2>2. CASE Kept' \subseteq Kept \cup new /\ RowCount + Cardinality(new) <= MaxRows
    <3>1. Cardinality(Kept') <= Cardinality(Kept \cup new) /\ IsFiniteSet(Kept')
      BY <1>1, <2>2, FS_Subset
    <3> QED BY <1>5, <1>6, <2>2, <3>1, FS_CardinalityType, ObservationBoundsAssumption
  <2> QED BY <1>4, <1>7, <1>8, <2>1, <2>2
<1> QED BY <1>9 DEF RowsAreBounded, RowCount, Kept

\* A person settles one at a time, and so makes room.
LEMMA SettlesFits ==
  ASSUME IsFiniteSet(Terms), RowsAreBounded, rows \in [Terms -> Row], NEW c \in Terms,
         NEW how \in {"accepted", "forgotten"}, Settles(c, how)
  PROVE  RowsAreBounded'
<1>1. \A e \in Terms : rows'[e] = IF e = c THEN [is |-> how, lessons |-> {}] ELSE rows[e]
  BY DEF Settles
<1>2. how = "accepted" => rows[c].is = "pending"
  BY DEF Settles
<1>3. Kept' = {e \in Terms : rows'[e].is \in {"pending", "active", "accepted"}}
  BY DEF Kept
<1>4. Kept' \subseteq Kept
  BY <1>1, <1>2, <1>3 DEF Kept
<1>5. IsFiniteSet(Kept)
  BY FS_Subset DEF Kept
<1>6. Cardinality(Kept') <= Cardinality(Kept) /\ IsFiniteSet(Kept')
  BY <1>4, <1>5, FS_Subset
<1>7. Cardinality(Kept') \in Nat /\ Cardinality(Kept) \in Nat
  BY <1>5, <1>6, FS_CardinalityType
<1> QED BY <1>6, <1>7, ObservationBoundsAssumption DEF RowsAreBounded, RowCount, Kept

\* rules.ts:25-26 the learned terms stay within their limit, however many candidates a reading
\* brings and however many readings are decided on one after another.
THEOREM LearningIsBounded ==
  ASSUME IsFiniteSet(Terms)
  PROVE  Spec => []RowsAreBounded
<1> DEFINE Bounded == ObservationTypeOK /\ TextTypeOK /\ RowsAreBounded
<1>1. Init => RowsAreBounded
  <2> SUFFICES ASSUME Init PROVE RowsAreBounded
    OBVIOUS
  <2>1. {c \in Terms : rows[c].is \in {"pending", "active", "accepted"}} = {}
    BY DEF Init, ObservationInit
  <2>2. RowCount = 0
    BY <2>1, FS_EmptySet, Zenon DEF RowCount
  <2> QED BY <2>2, ObservationBoundsAssumption DEF RowsAreBounded
<1>2. ASSUME ObservationTypeOK, RowsAreBounded, [Next]_vars PROVE RowsAreBounded'
  <2>1. rows \in [Terms -> Row] /\ \A t \in tasks : t.key \in SUBSET Terms
    BY <1>2, TaskFields DEF ObservationTypeOK
  <2>2. CASE UNCHANGED rows
    BY <1>2, <2>2 DEF RowsAreBounded, RowCount
  <2>3. ASSUME NEW t \in tasks, Hashed(t) PROVE RowsAreBounded'
    <3>1. CASE UNCHANGED rows
      BY <2>2, <3>1
    <3>2. CASE \E held \in SUBSET t.key : Learn(t, Decided(t.key \ held))
      <4>1. PICK held \in SUBSET t.key : Learn(t, Decided(t.key \ held))
        BY <3>2
      <4>2. t.key \ held \in SUBSET Terms
        BY <2>1
      <4> QED BY <1>2, <2>1, <4>1, <4>2, DecidedFits
    <3> QED BY <2>3, <3>1, <3>2 DEF Hashed
  <2>4. ASSUME NEW c \in Terms, NEW how \in {"accepted", "forgotten"}, Settles(c, how)
        PROVE  RowsAreBounded'
    BY <1>2, <2>1, <2>4, SettlesFits
  <2>5. ObservationNext => \/ UNCHANGED rows \/ \E t \in tasks : Hashed(t)
                           \/ \E c \in Terms, how \in {"accepted", "forgotten"} : Settles(c, how)
    BY DEF ObservationNext, Observes, Fire, TakeRead, Answers, GiveUp, Opens, Enters, EndArrives,
           DictationStarts, Cancel, Command
  <2>6. ASSUME NEW d \in Deliveries, Writing(d) \/ Restoring(d)
        PROVE  UNCHANGED rows
    BY <2>6 DEF Writing, Restoring, WriteToStay, EndBorrow, Decide, Captures, Write, Take, Paste,
                Return, Wake, Check, Stamp, besideVars, observationVars
  <2>7. ASSUME NEW what \in Copied, Copy(what) PROVE UNCHANGED rows
    BY <2>7 DEF Copy, besideVars, observationVars
  <2>8. Next => UNCHANGED rows \/ ObservationNext
    BY <2>6, <2>7 DEF Next, Begin, Beside, observationVars
  <2>9. CASE ObservationNext
    BY <2>2, <2>3, <2>4, <2>5, <2>9
  <2>10. UNCHANGED vars => UNCHANGED rows
    BY DEF vars, besideVars, observationVars
  <2> QED BY <1>2, <2>2, <2>8, <2>9, <2>10
<1>3. ObservationTypeOK /\ RowsAreBounded /\ [Next]_vars => RowsAreBounded'
  BY <1>2
<1> QED BY <1>1, <1>3, TypesHold, PTL DEF Spec

------------------------------------------------------------------------
(* Why borrows are honest. *)

\* What the invariant says beside the types.
Honest == OneActs /\ ClipIsAccounted /\ StagesAreSound /\ BorrowsAreSound

\* The stages of a delivery at work that nothing awaits.
Pressed == {"falling", "keeping", "left", "kept", "deciding", "capturing", "writing", "taking"}

\* While a delivery is pressed the others rest, and no restore is at work.
LEMMA Alone ==
  ASSUME TextTypeOK, Honest, NEW d \in Deliveries, delivery[d].at \in Pressed
  PROVE  /\ \A e \in Deliveries \ {d} : delivery[e].at \in {"idle", "done"}
         /\ \A e \in Deliveries : ~Restores(e)
         /\ outcome[d] = "none"
<1>1. Hurried(d) /\ ~Idle(d) /\ restore[d].at = "none"
  BY DEF Hurried, Idle, Pressed, TextTypeOK, Equipped
<1>2. \A e \in Deliveries \ {d} : ~Hurried(e) /\ Idle(e)
  BY <1>1 DEF Honest, OneActs
<1>3. \A e \in Deliveries : ~Restores(e)
  BY <1>1, <1>2 DEF Restores, Hurried
<1> QED BY <1>2, <1>3 DEF Idle, Honest, OneActs, Pressed

\* A borrow is told from what came after it by what the platform shows.
LEMMA Told ==
  ASSUME TextTypeOK, NEW b \in Borrowing, b.token = From(b.of), SitsAfter(b.of, b.word)
  PROVE  /\ ChangedHands(b) => clip.by.who # "delivery"
         /\ ~ChangedHands(b) => \/ clip.by = From(b.of)
                                \/ platform # "windows" /\ clip.by.who = "person" /\ clip.reads = b.word
<1>1. b.word \in Words /\ b.word # "nothing" /\ From(b.of).who = "delivery"
  BY DEF From, Borrowing
<1> QED BY <1>1 DEF ChangedHands, SitsAfter

\* What was left there stays the person's while no such delivery changes its outcome.
LEMMA TheirsStay ==
  ASSUME \A d \in Deliveries : outcome[d] = "left" => outcome'[d] = "left"
  PROVE  \A by : Theirs(by) => Theirs(by)'
  BY DEF Theirs

\* The parts that follow from a step of one delivery alone.
LEMMA OneActsStay ==
  ASSUME TextTypeOK, Honest, NEW d \in Deliveries, ~Idle(d),
         \A e \in Deliveries \ {d} : /\ delivery'[e].at = delivery[e].at /\ restore'[e].at = restore[e].at
                                     /\ outcome'[e] = outcome[e],
         Hurried(d)' => Hurried(d) \/ Quiet(Deliveries \ {d}), ~Simultaneous,
         delivery'[d].at \notin {"pasted", "done"} => outcome'[d] = "none"
  PROVE  OneActs'
<1>1. \A e \in Deliveries \ {d} : Idle(e) /\ Idle(e)'
  BY DEF Honest, OneActs, Idle
<1>2. \A e \in Deliveries \ {d} : Hurried(e)' <=> Hurried(e)
  BY DEF Hurried
<1>3. \A e, f \in Deliveries : Hurried(e)' /\ Hurried(f)' => e = f
  BY <1>2 DEF Honest, OneActs, Quiet
<1> QED BY <1>1, <1>3 DEF Honest, OneActs

\* The borrow that waits, while no restore is at work and its delivery keeps what it is.
LEMMA SlotStays ==
  ASSUME TextTypeOK, Honest, UNCHANGED slot, \A e \in Deliveries : ~Restores(e)',
         \A d \in Deliveries : outcome[d] = "left" => outcome'[d] = "left",
         \A e \in Deliveries : outcome[e] = "none" /\ delivery[e].at \in {"pasted", "done"} /\ ~delivery[e].keep
            => outcome'[e] = "none" /\ delivery'[e].at \in {"pasted", "done"} /\ ~delivery'[e].keep,
         slot # None /\ (\A e \in Deliveries : delivery'[e].at \notin {"left", "kept", "taking"})
            => SitsAfter(slot.of, slot.word)'
  PROVE  BorrowsAreSound'
<1>1. TakesOnlyItsOwn'
  BY DEF TakesOnlyItsOwn, Restores
<1>2. slot # None => Sound(slot)'
  <2>1. \A by : Theirs(by) => Theirs(by)'
    BY TheirsStay
  <2>2. slot # None => Sound(slot) /\ slot.of \in Deliveries
    BY BorrowFields DEF Honest, BorrowsAreSound, TextTypeOK
  <2> QED BY <2>1, <2>2 DEF Sound
<1> QED BY <1>1, <1>2 DEF BorrowsAreSound

\* A transcript that is to stay is in hand until its borrow ends.
LEMMA WriteToStayHonest ==
  ASSUME TextTypeOK, Honest, ~Simultaneous, NEW d \in Deliveries, WriteToStay(d)
  PROVE  Honest'
<1>0. /\ delivery[d].at \in {"falling", "keeping"} /\ UNCHANGED <<slot, restore, platform>>
      /\ delivery[d].at \in Pressed
  BY DEF WriteToStay, Pressed
<1>a. /\ \A e \in Deliveries \ {d} : delivery[e].at \in {"idle", "done"}
      /\ \A e \in Deliveries : ~Restores(e)
      /\ outcome[d] = "none"
  BY <1>0, Alone
<1>b. \/ /\ Ends(d, "failed") /\ UNCHANGED clip
      \/ /\ clip' = [reads |-> delivery[d].word, by |-> From(d)] /\ UNCHANGED outcome
         /\ delivery' = [delivery EXCEPT ![d] = [delivery[d] EXCEPT !.since = copies,
                            !.at = IF delivery[d].at = "falling" THEN "left" ELSE "kept"]]
  BY DEF WriteToStay, Writes, TextTypeOK
<1>1. CASE Ends(d, "failed") /\ UNCHANGED clip
  <2>1. /\ delivery'[d].at = "done" /\ outcome'[d] = "failed"
        /\ \A e \in Deliveries \ {d} : delivery'[e] = delivery[e] /\ outcome'[e] = outcome[e]
    BY <1>1, EndsReads DEF Ends, TextTypeOK
  <2>2. OneActs'
    BY <1>0, <2>1, OneActsStay DEF Hurried, Idle
  <2>3. \A by : Theirs(by) => Theirs(by)'
    BY <1>a, <2>1, TheirsStay
  <2>4. ClipIsAccounted'
    BY <1>0, <1>1, <1>a, <2>1 DEF Honest, ClipIsAccounted, InHand, Restores
  <2>5. StagesAreSound'
    BY <1>0, <1>1, <1>a, <2>1, <2>3 DEF Honest, StagesAreSound, Restores
  <2>6. BorrowsAreSound'
    <3>1. slot # None => SitsAfter(slot.of, slot.word)
      BY <1>0, <1>a DEF Honest, BorrowsAreSound
    <3>2. \A e \in Deliveries : ~Restores(e)'
      BY <1>0, <1>a DEF Restores
    <3> QED BY <1>0, <1>1, <1>a, <2>1, <3>1, <3>2, SlotStays DEF SitsAfter
  <2> QED BY <2>2, <2>4, <2>5, <2>6 DEF Honest
<1>2. CASE ~(Ends(d, "failed") /\ UNCHANGED clip)
  <2>1. /\ delivery'[d].at \in {"left", "kept"} /\ delivery'[d].word = delivery[d].word
        /\ clip'.by = From(d) /\ clip'.reads = delivery[d].word /\ UNCHANGED outcome
        /\ \A e \in Deliveries \ {d} : delivery'[e] = delivery[e]
    <3> DEFINE at == IF delivery[d].at = "falling" THEN "left" ELSE "kept"
               r == [delivery[d] EXCEPT !.since = copies, !.at = at]
    <3>1. /\ clip' = [reads |-> delivery[d].word, by |-> From(d)] /\ UNCHANGED outcome
          /\ delivery' = [delivery EXCEPT ![d] = r]
      BY <1>b, <1>2
    <3>2. r.at = at /\ r.word = delivery[d].word
      BY DeliveryReads DEF TextTypeOK
    <3>3. at \in {"left", "kept"}
      OBVIOUS
    <3> HIDE DEF r, at
    <3>4. delivery'[d] = r /\ \A e \in Deliveries \ {d} : delivery'[e] = delivery[e]
      BY <3>1 DEF TextTypeOK
    <3> QED BY <3>1, <3>2, <3>3, <3>4
  <2>2. OneActs'
    BY <1>0, <1>a, <2>1, OneActsStay DEF Hurried, Idle, Pressed
  <2>4. ClipIsAccounted'
    BY <2>1 DEF ClipIsAccounted, InHand, From
  <2>5. StagesAreSound'
    BY <1>a, <2>1 DEF StagesAreSound
  <2>6. BorrowsAreSound'
    <3>1. \A e \in Deliveries : ~Restores(e)'
      BY <1>0, <1>a DEF Restores
    <3> QED BY <1>0, <1>a, <2>1, <3>1, SlotStays
  <2> QED BY <2>2, <2>4, <2>5, <2>6 DEF Honest
<1> QED BY <1>1, <1>2

\* Once left there, it is the person's.
LEMMA EndBorrowHonest ==
  ASSUME TextTypeOK, Honest, ~Simultaneous, NEW d \in Deliveries, EndBorrow(d)
  PROVE  Honest'
<1>0. /\ delivery[d].at \in {"left", "kept"} /\ UNCHANGED <<clip, restore, platform>> /\ slot' = None
      /\ delivery[d].at \in Pressed
  BY DEF EndBorrow, Pressed
<1>a. /\ \A e \in Deliveries \ {d} : delivery[e].at \in {"idle", "done"}
      /\ \A e \in Deliveries : ~Restores(e)
      /\ outcome[d] = "none" /\ clip.by = From(d)
  BY <1>0, Alone DEF Honest, StagesAreSound
<1>1. \A e \in Deliveries : ~Restores(e)'
  BY <1>0, <1>a DEF Restores
<1>2. BorrowsAreSound'
  BY <1>0, <1>1 DEF BorrowsAreSound, TakesOnlyItsOwn, Restores
<1>3. CASE Ends(d, "left")
  <2>1. /\ delivery'[d].at = "done" /\ outcome'[d] = "left"
        /\ \A e \in Deliveries \ {d} : delivery'[e] = delivery[e] /\ outcome'[e] = outcome[e]
    BY <1>3, EndsReads DEF Ends, TextTypeOK
  <2>2. OneActs'
    BY <1>0, <2>1, OneActsStay DEF Hurried, Idle
  <2>3. ClipIsAccounted'
    BY <1>0, <1>a, <2>1 DEF ClipIsAccounted, From
  <2>4. StagesAreSound'
    BY <1>a, <2>1 DEF StagesAreSound
  <2> QED BY <1>2, <2>2, <2>3, <2>4 DEF Honest
<1>4. CASE delivery[d].at = "kept" /\ Goes(d, "settling") /\ UNCHANGED outcome
  <2>1. /\ delivery'[d].at = "settling" /\ delivery'[d].keep
        /\ \A e \in Deliveries \ {d} : delivery'[e] = delivery[e]
    BY <1>4, DeliveryReads DEF Goes, TextTypeOK, Equipped
  <2>2. OneActs'
    BY <1>0, <1>4, <1>a, <2>1, OneActsStay DEF Hurried, Idle
  <2>3. ClipIsAccounted'
    BY <1>0, <1>a, <2>1 DEF ClipIsAccounted, From, InHand
  <2>4. StagesAreSound'
    BY <1>0, <1>a, <1>1, <2>1 DEF StagesAreSound
  <2> QED BY <1>2, <2>2, <2>3, <2>4 DEF Honest
<1> QED BY <1>3, <1>4 DEF EndBorrow

\* What is told not to be borrowed for is the person's, and may be captured as theirs.
LEMMA DecideHonest ==
  ASSUME TextTypeOK, Honest, ~Simultaneous, NEW d \in Deliveries, Decide(d)
  PROVE  Honest'
<1>0. /\ delivery[d].at = "deciding" /\ UNCHANGED <<clip, slot, restore, platform, outcome>>
      /\ delivery[d].at \in Pressed
  BY DEF Decide, Pressed
<1>a. /\ \A e \in Deliveries \ {d} : delivery[e].at \in {"idle", "done"}
      /\ \A e \in Deliveries : ~Restores(e)
      /\ outcome[d] = "none"
  BY <1>0, Alone
<1>1. /\ delivery'[d].at = IF delivery'[d].inherits THEN "writing" ELSE "capturing"
      /\ delivery'[d].inherits <=> slot # None /\ ~ChangedHands(slot)
      /\ \A e \in Deliveries \ {d} : delivery'[e] = delivery[e]
  <2> DEFINE inherits == slot # None /\ ~ChangedHands(slot)
             r == [delivery[d] EXCEPT !.inherits = inherits,
                                      !.at = IF inherits THEN "writing" ELSE "capturing"]
  <2>1. delivery' = [delivery EXCEPT ![d] = r]
    BY DEF Decide, TextTypeOK
  <2>2. r.inherits = inherits /\ r.at = IF inherits THEN "writing" ELSE "capturing"
    BY DeliveryReads DEF TextTypeOK
  <2> HIDE DEF r, inherits
  <2>3. delivery'[d] = r /\ \A e \in Deliveries \ {d} : delivery'[e] = delivery[e]
    BY <2>1 DEF TextTypeOK
  <2>4. inherits <=> slot # None /\ ~ChangedHands(slot)
    BY DEF inherits
  <2> QED BY <2>2, <2>3, <2>4
<1>2. slot # None => slot \in Borrowing /\ SitsAfter(slot.of, slot.word) /\ slot.token = From(slot.of)
  BY <1>0, <1>a, BorrowFields DEF Honest, BorrowsAreSound, Sound, TextTypeOK
<1>3. delivery'[d].at = "capturing" => Theirs(clip.by)
  <2>1. SUFFICES ASSUME delivery'[d].at = "capturing", clip.by.who = "delivery"
                 PROVE  clip.by.n \in Deliveries /\ outcome[clip.by.n] = "left"
    BY DEF Theirs
  <2>2. slot = None \/ ChangedHands(slot)
    BY <1>1, <2>1
  <2>3. slot = None
    BY <1>2, <2>1, <2>2, Told
  <2> QED BY <1>0, <1>a, <2>1, <2>3 DEF Honest, ClipIsAccounted, InHand
<1>4. OneActs'
  BY <1>0, <1>a, <1>1, OneActsStay DEF Hurried, Idle
<1>5. ClipIsAccounted'
  BY <1>0, <1>a, <1>1 DEF Honest, ClipIsAccounted, InHand, Restores
<1>6. StagesAreSound'
  BY <1>0, <1>a, <1>1, <1>3 DEF StagesAreSound, Theirs
<1>7. BorrowsAreSound'
  <2>1. \A e \in Deliveries : ~Restores(e)'
    BY <1>0, <1>a DEF Restores
  <2>2. d \in Deliveries => \A e \in Deliveries : outcome[e] = "none"
           /\ delivery[e].at \in {"pasted", "done"} /\ ~delivery[e].keep
           => delivery'[e].at \in {"pasted", "done"} /\ ~delivery'[e].keep
    BY <1>0, <1>1
  <2> QED BY <1>0, <1>2, <2>1, <2>2, SlotStays DEF SitsAfter
<1> QED BY <1>4, <1>5, <1>6, <1>7 DEF Honest

\* What is captured is owed as it was.
LEMMA CapturesHonest ==
  ASSUME TextTypeOK, Honest, ~Simultaneous, NEW d \in Deliveries, Captures(d)
  PROVE  Honest'
<1>0. /\ delivery[d].at = "capturing" /\ UNCHANGED <<clip, slot, restore, platform, outcome>>
      /\ delivery[d].at \in Pressed
  BY DEF Captures, Pressed
<1>a. /\ \A e \in Deliveries \ {d} : delivery[e].at \in {"idle", "done"}
      /\ \A e \in Deliveries : ~Restores(e)
      /\ outcome[d] = "none" /\ Theirs(clip.by)
  BY <1>0, Alone DEF Honest, StagesAreSound
<1>1. /\ delivery'[d].at = "writing" /\ delivery'[d].owes = Capture
      /\ delivery'[d].inherits = delivery[d].inherits
      /\ \A e \in Deliveries \ {d} : delivery'[e] = delivery[e]
  <2> DEFINE r == [delivery[d] EXCEPT !.owes = Capture, !.at = "writing"]
  <2>1. delivery' = [delivery EXCEPT ![d] = r]
    BY DEF Captures, TextTypeOK
  <2>2. r.at = "writing" /\ r.owes = Capture /\ r.inherits = delivery[d].inherits
    BY DeliveryReads DEF TextTypeOK
  <2> HIDE DEF r
  <2> QED BY <2>1, <2>2 DEF TextTypeOK
<1>b. Capture.by = clip.by /\ ~delivery[d].inherits
  <2>1. ~delivery[d].inherits
    BY <1>0 DEF Honest, StagesAreSound
  <2>2. Capture.by = clip.by
    BY DEF Capture, Blank
  <2> QED BY <2>1, <2>2
<1>4. OneActs'
  BY <1>0, <1>a, <1>1, OneActsStay DEF Hurried, Idle
<1>5. ClipIsAccounted'
  BY <1>0, <1>a, <1>1 DEF Honest, ClipIsAccounted, InHand, Restores
<1>6. StagesAreSound'
  BY <1>0, <1>a, <1>b, <1>1 DEF StagesAreSound, Theirs
<1>7. BorrowsAreSound'
  <2>1. \A e \in Deliveries : ~Restores(e)'
    BY <1>0, <1>a DEF Restores
  <2>2. slot # None => SitsAfter(slot.of, slot.word)
    BY <1>0, <1>a DEF Honest, BorrowsAreSound
  <2> QED BY <1>0, <1>1, <2>1, <2>2, SlotStays DEF SitsAfter
<1> QED BY <1>4, <1>5, <1>6, <1>7 DEF Honest

\* A write takes the place of what was captured; one that fails leaves nothing to take back.
LEMMA WriteHonest ==
  ASSUME TextTypeOK, Honest, ~Simultaneous, NEW d \in Deliveries, Write(d)
  PROVE  Honest'
<1>0. /\ delivery[d].at = "writing" /\ UNCHANGED <<slot, restore, platform>>
      /\ delivery[d].at \in Pressed
  BY DEF Write, Pressed
<1>a. /\ \A e \in Deliveries \ {d} : delivery[e].at \in {"idle", "done"}
      /\ \A e \in Deliveries : ~Restores(e)
      /\ outcome[d] = "none"
  BY <1>0, Alone
<1>1. CASE Ends(d, "failed") /\ clip' = IF platform = "macos" THEN Blank ELSE clip
  <2>1. /\ delivery'[d].at = "done" /\ outcome'[d] = "failed"
        /\ \A e \in Deliveries \ {d} : delivery'[e] = delivery[e] /\ outcome'[e] = outcome[e]
    BY <1>1, EndsReads DEF Ends, TextTypeOK
  <2>2. OneActs'
    BY <1>0, <2>1, OneActsStay DEF Hurried, Idle
  <2>3. Blank.by.who = "nobody" /\ Blank.reads = "nothing"
    BY DEF Blank, Nobody
  <2>4. ClipIsAccounted'
    BY <1>0, <1>1, <1>a, <2>1, <2>3 DEF Honest, ClipIsAccounted, InHand, Restores
  <2>5. StagesAreSound'
    BY <1>a, <2>1 DEF StagesAreSound
  <2>6. BorrowsAreSound'
    <3>1. slot # None => SitsAfter(slot.of, slot.word)
      BY <1>0, <1>a DEF Honest, BorrowsAreSound
    <3>2. \A e \in Deliveries : ~Restores(e)'
      BY <1>0, <1>a DEF Restores
    <3>3. slot # None => SitsAfter(slot.of, slot.word)'
      BY <1>0, <1>1, <2>3, <3>1 DEF SitsAfter
    <3> QED BY <1>0, <1>a, <2>1, <3>2, <3>3, SlotStays
  <2> QED BY <2>2, <2>4, <2>5, <2>6 DEF Honest
<1>2. CASE ~(Ends(d, "failed") /\ clip' = IF platform = "macos" THEN Blank ELSE clip)
  <2>1. /\ delivery'[d].at = "taking" /\ delivery'[d].word = delivery[d].word
        /\ delivery'[d].inherits = delivery[d].inherits /\ delivery'[d].owes = delivery[d].owes
        /\ clip'.by = From(d) /\ clip'.reads = delivery[d].word /\ UNCHANGED outcome
        /\ \A e \in Deliveries \ {d} : delivery'[e] = delivery[e]
    <3> DEFINE r == [delivery[d] EXCEPT !.at = "taking", !.since = copies]
    <3>1. /\ clip' = [reads |-> delivery[d].word, by |-> From(d)] /\ UNCHANGED outcome
          /\ delivery' = [delivery EXCEPT ![d] = r]
      BY <1>2 DEF Write, Writes, TextTypeOK
    <3>2. r.at = "taking" /\ r.word = delivery[d].word /\ r.inherits = delivery[d].inherits
          /\ r.owes = delivery[d].owes
      BY DeliveryReads DEF TextTypeOK
    <3> HIDE DEF r
    <3>4. delivery'[d] = r /\ \A e \in Deliveries \ {d} : delivery'[e] = delivery[e]
      BY <3>1 DEF TextTypeOK
    <3> QED BY <3>1, <3>2, <3>4
  <2>2. OneActs'
    BY <1>0, <1>a, <2>1, OneActsStay DEF Hurried, Idle
  <2>4. ClipIsAccounted'
    BY <2>1 DEF ClipIsAccounted, InHand, From
  <2>5. StagesAreSound'
    BY <1>0, <1>a, <2>1 DEF Honest, StagesAreSound, Theirs
  <2>6. BorrowsAreSound'
    <3>1. \A e \in Deliveries : ~Restores(e)'
      BY <1>0, <1>a DEF Restores
    <3> QED BY <1>0, <1>a, <2>1, <3>1, SlotStays
  <2> QED BY <2>2, <2>4, <2>5, <2>6 DEF Honest
<1> QED BY <1>1, <1>2

\* The borrow that is taken over was owed to the person too.
LEMMA TakeHonest ==
  ASSUME TextTypeOK, Honest, ~Simultaneous, NEW d \in Deliveries, Take(d)
  PROVE  Honest'
<1>0. /\ delivery[d].at = "taking" /\ UNCHANGED <<clip, restore, platform, outcome>> /\ slot' = None
      /\ delivery[d].at \in Pressed
  BY DEF Take, Pressed
<1>a. /\ \A e \in Deliveries \ {d} : delivery[e].at \in {"idle", "done"}
      /\ \A e \in Deliveries : ~Restores(e)
      /\ outcome[d] = "none" /\ clip.by = From(d) /\ clip.reads = delivery[d].word
  BY <1>0, Alone DEF Honest, StagesAreSound
<1>1. PICK owed : /\ delivery'[d].at = "settling" /\ delivery'[d].owes = owed /\ delivery'[d].token = clip.by
                  /\ delivery'[d].keep = delivery[d].keep /\ delivery'[d].word = delivery[d].word
                  /\ owed = IF ~delivery[d].inherits THEN delivery[d].owes
                            ELSE IF slot # None THEN slot.owes ELSE Capture
                  /\ \A e \in Deliveries \ {d} : delivery'[e] = delivery[e]
  <2> DEFINE owed == IF ~delivery[d].inherits THEN delivery[d].owes
                     ELSE IF slot # None THEN slot.owes ELSE Capture
             r == [delivery[d] EXCEPT !.at = "settling", !.token = clip.by, !.owes = owed]
  <2>1. delivery' = [delivery EXCEPT ![d] = r]
    BY DEF Take, TextTypeOK
  <2>2. owed = IF ~delivery[d].inherits THEN delivery[d].owes
               ELSE IF slot # None THEN slot.owes ELSE Capture
    OBVIOUS
  <2> HIDE DEF owed
  <2>3. r.at = "settling" /\ r.owes = owed /\ r.token = clip.by /\ r.keep = delivery[d].keep
        /\ r.word = delivery[d].word
    BY DeliveryReads DEF TextTypeOK
  <2> HIDE DEF r
  <2>4. delivery'[d] = r /\ \A e \in Deliveries \ {d} : delivery'[e] = delivery[e]
    BY <2>1 DEF TextTypeOK
  <2> QED BY <2>2, <2>3, <2>4
<1>2. Theirs(owed.by)
  BY <1>0, <1>1 DEF Honest, StagesAreSound, BorrowsAreSound, Sound
<1>3. \A e \in Deliveries : ~Restores(e)'
  BY <1>0, <1>a DEF Restores
<1>4. OneActs'
  BY <1>0, <1>a, <1>1, OneActsStay DEF Hurried, Idle
<1>5. ClipIsAccounted'
  BY <1>0, <1>a, <1>1 DEF ClipIsAccounted, InHand, From
<1>6. StagesAreSound'
  BY <1>0, <1>a, <1>1, <1>2, <1>3 DEF StagesAreSound, Theirs, SitsAfter
<1>7. BorrowsAreSound'
  BY <1>0, <1>3 DEF BorrowsAreSound, TakesOnlyItsOwn, Restores
<1> QED BY <1>4, <1>5, <1>6, <1>7 DEF Honest

\* A paste hands the borrow to its restore, or leaves the transcript.
LEMMA PasteHonest ==
  ASSUME TextTypeOK, Honest, ~Simultaneous, NEW d \in Deliveries, Paste(d)
  PROVE  Honest'
<1>0. /\ delivery[d].at = "settling" /\ UNCHANGED <<clip, platform>> /\ slot = None
      /\ \A e \in Deliveries : ~Restores(e) /\ ~Hurried(e)
      /\ \A e \in Deliveries \ {d} : delivery[e].at \in {"idle", "done"}
      /\ outcome[d] = "none" /\ restore[d].at = "none"
  BY DEF Paste, Quiet, Idle, Honest, OneActs, StagesAreSound, Restores, TextTypeOK, Equipped
<1>1. CASE Ends(d, "left") /\ UNCHANGED <<slot, restore>>
  <2>1. /\ delivery'[d].at = "done" /\ outcome'[d] = "left"
        /\ \A e \in Deliveries \ {d} : delivery'[e] = delivery[e] /\ outcome'[e] = outcome[e]
    BY <1>1, EndsReads DEF Ends, TextTypeOK
  <2>2. OneActs'
    BY <1>0, <1>1, <2>1, OneActsStay DEF Hurried, Idle
  <2>3. ClipIsAccounted'
    BY <1>0, <1>1, <2>1 DEF Honest, ClipIsAccounted, InHand, Restores
  <2>4. StagesAreSound'
    BY <1>0, <2>1 DEF StagesAreSound
  <2>5. BorrowsAreSound'
    BY <1>0, <1>1 DEF BorrowsAreSound, TakesOnlyItsOwn, Restores
  <2> QED BY <2>2, <2>3, <2>4, <2>5 DEF Honest
<1>2. CASE Goes(d, "pasted") /\ UNCHANGED outcome
  <2>1. /\ delivery'[d].at = "pasted" /\ delivery'[d].keep = delivery[d].keep
        /\ \A e \in Deliveries \ {d} : delivery'[e] = delivery[e]
    BY <1>2, DeliveryReads DEF Goes, TextTypeOK
  <2>2. /\ \A e \in Deliveries \ {d} : restore'[e] = restore[e]
        /\ restore'[d].at \in {"none", "waiting"}
    BY <1>0, <1>2 DEF Paste, TextTypeOK, Ends, Restore
  <2>3. OneActs'
    BY <1>0, <1>2, <2>1, <2>2, OneActsStay DEF Hurried, Idle
  <2>a. \A e \in Deliveries : ~Restores(e)'
    BY <1>0, <2>2 DEF Restores
  <2>b. ~(Ends(d, "left") /\ UNCHANGED <<slot, restore>>)
    BY <1>0, <1>2 DEF Ends, TextTypeOK
  <2>4. delivery[d].keep => slot' = None
    BY <1>0, <2>b DEF Paste
  <2>5. ~delivery[d].keep => slot' = Borrow(d) /\ slot' # None /\ slot'.of = d
    BY <2>b DEF Paste, Borrow, None
  <2>6. ClipIsAccounted'
    BY <1>0, <1>2, <2>1, <2>4, <2>5 DEF Honest, ClipIsAccounted, InHand, Restores
  <2>7. StagesAreSound'
    BY <1>0, <2>1 DEF StagesAreSound
  <2>8. BorrowsAreSound'
    <3>1. TakesOnlyItsOwn'
      BY <2>a DEF TakesOnlyItsOwn, Restores
    <3>2. CASE delivery[d].keep
      BY <2>4, <2>a, <3>1, <3>2 DEF BorrowsAreSound
    <3>3. CASE ~delivery[d].keep
      <4>1. /\ Theirs(delivery[d].owes.by) /\ delivery[d].token = From(d) /\ SitsAfter(d, delivery[d].word)
        BY <1>0, <3>3 DEF Honest, StagesAreSound
      <4>2. /\ slot'.of = d /\ slot'.token = From(d) /\ slot'.word = delivery[d].word
            /\ slot'.owes = delivery[d].owes
        BY <2>5, <3>3, <4>1 DEF Borrow
      <4>3. Sound(slot)'
        BY <1>0, <1>2, <2>1, <3>3, <4>1, <4>2 DEF Sound, Theirs, From
      <4>4. SitsAfter(slot.of, slot.word)'
        BY <1>0, <4>1, <4>2 DEF SitsAfter
      <4> QED BY <2>a, <3>1, <4>3, <4>4 DEF BorrowsAreSound
    <3> QED BY <3>2, <3>3
  <2> QED BY <2>3, <2>6, <2>7, <2>8 DEF Honest
<1> QED BY <1>1, <1>2 DEF Paste

\* A delivery that returns leaves its borrow as it is.
LEMMA ReturnHonest ==
  ASSUME TextTypeOK, Honest, ~Simultaneous, NEW d \in Deliveries, Return(d)
  PROVE  Honest'
<1>0. /\ delivery[d].at = "pasted" /\ UNCHANGED <<clip, slot, restore, platform>>
      /\ Ends(d, IF delivery[d].keep THEN "left" ELSE outcome[d])
  BY DEF Return
<1>1. /\ delivery'[d].at = "done" /\ ~delivery'[d].keep
      /\ outcome'[d] = IF delivery[d].keep THEN "left" ELSE outcome[d]
      /\ \A e \in Deliveries \ {d} : delivery'[e] = delivery[e] /\ outcome'[e] = outcome[e]
      /\ \A e \in Deliveries \ {d} : delivery[e].at \in {"idle", "done"}
  BY <1>0 DEF Ends, Resting, TextTypeOK, Honest, OneActs, Idle
<1>2. /\ \A e \in Deliveries : outcome[e] = "left" => outcome'[e] = "left"
      /\ \A e \in Deliveries : outcome[e] = "none" /\ delivery[e].at \in {"pasted", "done"} /\ ~delivery[e].keep
            => outcome'[e] = "none" /\ delivery'[e].at \in {"pasted", "done"} /\ ~delivery'[e].keep
  BY <1>1
<1>3. \A by : Theirs(by) => Theirs(by)'
  BY <1>2, TheirsStay
<1>4. OneActs'
  BY <1>0, <1>1, OneActsStay DEF Hurried, Idle
<1>5. ClipIsAccounted'
  BY <1>0, <1>1, <1>2 DEF Honest, ClipIsAccounted, InHand, Restores
<1>6. StagesAreSound'
  BY <1>1 DEF StagesAreSound
<1>7. BorrowsAreSound'
  <2>1. \A b : Sound(b) /\ b.of \in Deliveries => Sound(b)'
    BY <1>2, <1>3 DEF Sound
  <2>2. slot # None => slot.of \in Deliveries
    BY BorrowFields DEF TextTypeOK
  <2>3. \A of, word : SitsAfter(of, word)' <=> SitsAfter(of, word)
    BY <1>0 DEF SitsAfter
  <2>4. (\A e \in Deliveries : delivery'[e].at \notin {"left", "kept", "taking"})
        => \A e \in Deliveries : delivery[e].at \notin {"left", "kept", "taking"}
    BY <1>0, <1>1
  <2>5. TakesOnlyItsOwn'
    <3>1. ASSUME NEW e \in Deliveries, restore[e].at = "stamping"
          PROVE  /\ restore[e].holds.of = e /\ outcome'[e] # "left"
                 /\ \/ clip.by = From(restore[e].holds.of)
                    \/ platform # "windows" /\ clip.by.who = "person" /\ clip.reads = restore[e].holds.word
      <4>1. restore[e].holds.of = e /\ Sound(restore[e].holds)
        BY <3>1 DEF Honest, BorrowsAreSound, Restores
      <4> QED BY <1>2, <3>1, <4>1 DEF Honest, BorrowsAreSound, TakesOnlyItsOwn, Sound
    <3> QED BY <1>0, <3>1 DEF TakesOnlyItsOwn
  <2> QED BY <1>0, <2>1, <2>2, <2>3, <2>4, <2>5 DEF Honest, BorrowsAreSound, Restores
<1> QED BY <1>4, <1>5, <1>6, <1>7 DEF Honest

\* A step while no delivery is pressed and none but one restore changes.
LEMMA RestoreActs ==
  ASSUME TextTypeOK, Honest, NEW d \in Deliveries, UNCHANGED delivery,
         \A e \in Deliveries \ {d} : restore'[e] = restore[e],
         \A e \in Deliveries \ {d} : outcome'[e] = outcome[e],
         restore[d].at # "none", \A e \in Deliveries \ {d} : ~Hurried(e)
  PROVE  OneActs'
<1>1. delivery[d].at \in {"pasted", "done"}
  BY DEF TextTypeOK, Equipped
<1>2. \A e \in Deliveries : Hurried(e)' => e = d
  BY DEF Hurried
<1> QED BY <1>1, <1>2 DEF Honest, OneActs, Idle

\* A restore takes its own borrow, or finds another's and goes.
LEMMA WakeHonest ==
  ASSUME TextTypeOK, Honest, ~Simultaneous, NEW d \in Deliveries, Wake(d)
  PROVE  Honest'
<1>0. /\ restore[d].at = "waiting" /\ UNCHANGED <<clip, delivery, outcome, platform>>
      /\ \A e \in Deliveries : ~Hurried(e)
  BY DEF Wake, Quiet
<1>a. /\ \A e \in Deliveries : ~Restores(e) /\ delivery[e].at \notin Pressed
  BY <1>0 DEF Hurried, Restores, Pressed
<1>1. CASE slot # None /\ slot.of = d
  <2>1. /\ slot' = None /\ restore'[d].at = "checking" /\ restore'[d].holds = slot
        /\ \A e \in Deliveries \ {d} : restore'[e] = restore[e]
    BY <1>1 DEF Wake, RestoreGoes, TextTypeOK
  <2>2. OneActs'
    BY <1>0, <2>1, RestoreActs
  <2>3. ClipIsAccounted'
    BY <1>0, <1>1, <1>a, <2>1 DEF Honest, ClipIsAccounted, InHand, Restores
  <2>4. \A e \in Deliveries : delivery[e].at # "settling"
    BY <1>1 DEF Honest, StagesAreSound
  <2>5. StagesAreSound'
    BY <1>0, <1>a, <2>4 DEF StagesAreSound, Pressed
  <2>6. BorrowsAreSound'
    <3>1. Sound(slot) /\ SitsAfter(d, slot.word)
      BY <1>1, <1>a DEF Honest, BorrowsAreSound, Pressed
    <3>2. Sound(slot)' = Sound(slot)' /\ \A b : Sound(b) => Sound(b)'
      BY <1>0 DEF Sound, Theirs
    <3>3. SitsAfter(d, slot.word) => \A e \in Deliveries : Restores(e)' => e = d
      BY <1>a, <2>1 DEF Restores
    <3>4. TakesOnlyItsOwn'
      BY <1>a, <2>1 DEF TakesOnlyItsOwn, Restores
    <3>5. \A word : SitsAfter(d, word) => SitsAfter(d, word)'
      BY <1>0 DEF SitsAfter
    <3> QED BY <1>1, <2>1, <3>1, <3>2, <3>3, <3>4, <3>5 DEF BorrowsAreSound
  <2> QED BY <2>2, <2>3, <2>5, <2>6 DEF Honest
<1>2. CASE ~(slot # None /\ slot.of = d)
  <2>1. /\ UNCHANGED slot /\ restore'[d].at = "none"
        /\ \A e \in Deliveries \ {d} : restore'[e] = restore[e]
    BY <1>2 DEF Wake, RestoreGoes, TextTypeOK
  <2>2. OneActs'
    BY <1>0, <2>1, RestoreActs
  <2>a. \A e \in Deliveries : ~Restores(e)'
    BY <1>a, <2>1 DEF Restores
  <2>3. ClipIsAccounted'
    BY <1>0, <1>a, <2>1 DEF Honest, ClipIsAccounted, InHand, Restores
  <2>5. StagesAreSound'
    BY <1>0, <1>a, <2>1, <2>a DEF Honest, StagesAreSound, Pressed, SitsAfter, Theirs
  <2>6. BorrowsAreSound'
    <3>1. slot # None => SitsAfter(slot.of, slot.word)
      BY <1>a DEF Honest, BorrowsAreSound, Pressed
    <3> QED BY <1>0, <2>1, <2>a, <3>1, SlotStays DEF SitsAfter
  <2> QED BY <2>2, <2>3, <2>5, <2>6 DEF Honest
<1> QED BY <1>1, <1>2

\* It goes on only where it finds what its delivery wrote.
LEMMA CheckHonest ==
  ASSUME TextTypeOK, Honest, ~Simultaneous, NEW d \in Deliveries, Check(d)
  PROVE  Honest'
<1>0. /\ restore[d].at = "checking" /\ UNCHANGED <<clip, slot, delivery, outcome, platform>>
      /\ \A e \in Deliveries \ {d} : ~Hurried(e)
  BY DEF Check, Quiet
<1>a. /\ \A e \in Deliveries \ {d} : ~Restores(e)
      /\ \A e \in Deliveries : delivery[e].at \notin Pressed /\ delivery[e].at # "settling"
      /\ slot = None /\ restore[d].holds \in Borrowing /\ restore[d].holds.of = d
      /\ Sound(restore[d].holds) /\ SitsAfter(d, restore[d].holds.word)
  <2>1. delivery[d].at \in {"pasted", "done"} /\ restore[d].holds # None /\ Restores(d)
    BY <1>0 DEF TextTypeOK, Equipped, Restores
  <2>2. restore[d].holds \in Borrowing
    BY <2>1, RestoreFields, BorrowFields DEF TextTypeOK
  <2> QED BY <1>0, <2>1, <2>2 DEF Hurried, Restores, Pressed, Honest, StagesAreSound, BorrowsAreSound
<1>1. /\ restore'[d].at = IF ChangedHands(restore[d].holds) THEN "none" ELSE "stamping"
      /\ ~ChangedHands(restore[d].holds) => restore'[d].holds = restore[d].holds
      /\ \A e \in Deliveries \ {d} : restore'[e] = restore[e]
  BY DEF Check, RestoreGoes, TextTypeOK
<1>2. OneActs'
  BY <1>0, <1>1, RestoreActs
<1>b. /\ ChangedHands(restore[d].holds) => clip.by.who # "delivery"
      /\ ~ChangedHands(restore[d].holds) =>
            \/ clip.by = From(d)
            \/ platform # "windows" /\ clip.by.who = "person" /\ clip.reads = restore[d].holds.word
  BY <1>a, Told DEF Sound
<1>3. ClipIsAccounted'
  BY <1>0, <1>1, <1>a, <1>b DEF Honest, ClipIsAccounted, InHand, Restores
<1>5. StagesAreSound'
  BY <1>0, <1>a DEF StagesAreSound, Pressed
<1>6. BorrowsAreSound'
  <2>1. \A b : Sound(b) => Sound(b)'
    BY <1>0 DEF Sound, Theirs
  <2>2. outcome[d] # "left"
    BY <1>a DEF Sound
  <2>3. TakesOnlyItsOwn'
    BY <1>0, <1>1, <1>a, <1>b, <2>2 DEF TakesOnlyItsOwn, Restores
  <2> QED BY <1>0, <1>1, <1>a, <2>1, <2>3 DEF BorrowsAreSound, Restores
<1> QED BY <1>2, <1>3, <1>5, <1>6 DEF Honest

\* It gives back what was the person's, or leaves the transcript to them.
LEMMA StampHonest ==
  ASSUME TextTypeOK, Honest, ~Simultaneous, NEW d \in Deliveries, Stamp(d)
  PROVE  Honest'
<1>0. /\ restore[d].at = "stamping" /\ UNCHANGED <<slot, delivery, platform>>
      /\ \A e \in Deliveries \ {d} : ~Hurried(e)
      /\ \/ clip' = restore[d].holds.owes /\ UNCHANGED outcome
         \/ outcome' = [outcome EXCEPT ![d] = "left"] /\ UNCHANGED clip
  BY DEF Stamp, Quiet
<1>a. /\ \A e \in Deliveries \ {d} : ~Restores(e)
      /\ \A e \in Deliveries : delivery[e].at \notin Pressed /\ delivery[e].at # "settling"
      /\ slot = None /\ Theirs(restore[d].holds.owes.by) /\ delivery[d].at \in {"pasted", "done"}
      /\ outcome[d] = "none"
  <2>1. delivery[d].at \in {"pasted", "done"} /\ Restores(d)
    BY <1>0 DEF TextTypeOK, Equipped, Restores
  <2>2. Sound(restore[d].holds) /\ restore[d].holds.of = d /\ slot = None
    BY <2>1 DEF Honest, BorrowsAreSound
  <2> QED BY <1>0, <2>1, <2>2 DEF Hurried, Restores, Pressed, Honest, StagesAreSound, Sound
<1>1. restore'[d].at = "none" /\ \A e \in Deliveries \ {d} : restore'[e] = restore[e]
  BY DEF Stamp, RestoreGoes, TextTypeOK
<1>2. \A e \in Deliveries : /\ outcome[e] = "left" => outcome'[e] = "left"
                            /\ e # d => outcome'[e] = outcome[e]
  BY <1>0 DEF TextTypeOK
<1>b. \A e \in Deliveries : ~Restores(e)'
  BY <1>1, <1>a DEF Restores
<1>3. OneActs'
  BY <1>0, <1>1, <1>2, RestoreActs
<1>4. ClipIsAccounted'
  <2>1. CASE clip' = restore[d].holds.owes /\ UNCHANGED outcome
    BY <1>a, <2>1 DEF ClipIsAccounted, Theirs
  <2>2. CASE outcome' = [outcome EXCEPT ![d] = "left"] /\ UNCHANGED clip
    <3>1. outcome'[d] = "left"
      BY <2>2 DEF TextTypeOK
    <3> QED BY <1>0, <1>a, <1>2, <2>2, <3>1 DEF Honest, ClipIsAccounted, InHand
  <2> QED BY <1>0, <2>1, <2>2
<1>5. StagesAreSound'
  BY <1>0, <1>a DEF StagesAreSound, Pressed
<1>6. BorrowsAreSound'
  BY <1>0, <1>a, <1>b DEF BorrowsAreSound, TakesOnlyItsOwn, Restores
<1> QED BY <1>3, <1>4, <1>5, <1>6 DEF Honest

\* What the person copies is theirs.
LEMMA CopyHonest ==
  ASSUME TextTypeOK, Honest, ~Simultaneous, NEW what, Copy(what)
  PROVE  Honest'
<1>0. /\ clip'.by.who = "person" /\ UNCHANGED <<slot, restore, delivery, outcome, platform>>
      /\ \A e \in Deliveries : ~Hurried(e)
  BY DEF Copy, Quiet, Person
<1>1. \A e \in Deliveries : ~Restores(e) /\ delivery[e].at \notin Pressed
  BY <1>0 DEF Hurried, Restores, Pressed
<1>2. OneActs' /\ ClipIsAccounted'
  BY <1>0 DEF Honest, OneActs, ClipIsAccounted, Idle, Hurried
<1>3. StagesAreSound'
  BY <1>0, <1>1 DEF Honest, StagesAreSound, Pressed, Restores, SitsAfter, Theirs
<1>4. BorrowsAreSound'
  <2>1. \A e \in Deliveries : ~Restores(e)'
    BY <1>0, <1>1 DEF Restores
  <2> QED BY <1>0, <2>1, SlotStays DEF SitsAfter
<1> QED BY <1>2, <1>3, <1>4 DEF Honest

\* A delivery begins when the one before has returned.
LEMMA BeginHonest ==
  ASSUME TextTypeOK, Honest, ~Simultaneous, ~Overlap,
         NEW d \in Deliveries, NEW keep, NEW word, NEW observe, Begin(d, keep, word, observe)
  PROVE  Honest'
<1>0. /\ delivery[d].at = "idle" /\ UNCHANGED <<clip, slot, restore, outcome, platform>>
      /\ \A e \in Deliveries : ~Hurried(e) /\ Idle(e)
      /\ delivery'[d].at \in {"falling", "keeping", "deciding"}
      /\ \A e \in Deliveries \ {d} : delivery'[e] = delivery[e]
  BY DEF Begin, Quiet, Resting, TextTypeOK
<1>1. \A e \in Deliveries : /\ ~Restores(e) /\ delivery[e].at \in {"idle", "done"}
                            /\ e # d => ~Hurried(e)' /\ Idle(e)'
  BY <1>0 DEF Hurried, Restores, Idle
<1>2. OneActs'
  BY <1>0, <1>1 DEF Honest, OneActs
<1>3. ClipIsAccounted'
  BY <1>0, <1>1 DEF Honest, ClipIsAccounted, InHand, Restores
<1>4. StagesAreSound'
  BY <1>0, <1>1 DEF StagesAreSound
<1>5. BorrowsAreSound'
  <2>1. \A e \in Deliveries : ~Restores(e)'
    BY <1>0, <1>1 DEF Restores
  <2>2. slot # None => SitsAfter(slot.of, slot.word)
    BY <1>1 DEF Honest, BorrowsAreSound
  <2>3. slot # None => slot.of \in Deliveries /\ slot.of # d
    BY <1>0, BorrowFields DEF Honest, BorrowsAreSound, Sound, TextTypeOK
  <2>4. \A e \in Deliveries : delivery[e].at \in {"pasted", "done"} /\ ~delivery[e].keep
            => delivery'[e].at \in {"pasted", "done"} /\ ~delivery'[e].keep
    BY <1>0
  <2> QED BY <1>0, <2>1, <2>2, <2>4, SlotStays DEF SitsAfter
<1> QED BY <1>2, <1>3, <1>4, <1>5 DEF Honest

\* The invariant holds at first.
LEMMA HonestInit ==
  ASSUME Init
  PROVE  Honest
<1>1. /\ clip.by.who = "person" /\ slot = None
      /\ \A d \in Deliveries : /\ delivery[d].at = "idle" /\ restore[d].at = "none" /\ outcome[d] = "none"
  <2>1. clip.by = Person(0) /\ slot = None
    BY DEF Init
  <2>2. Person(0).who = "person" /\ Resting.at = "idle"
    BY DEF Person, Resting
  <2>3. \A d \in Deliveries : /\ delivery[d] = Resting /\ outcome[d] = "none"
                              /\ restore[d] = [at |-> "none", holds |-> None]
    BY DEF Init
  <2> QED BY <2>1, <2>2, <2>3
<1> QED BY <1>1 DEF Honest, OneActs, ClipIsAccounted, StagesAreSound, BorrowsAreSound, TakesOnlyItsOwn,
                    Restores, Hurried, Idle

\* And every step keeps it.
LEMMA HonestNext ==
  ASSUME TextTypeOK, Honest, ~Simultaneous, ~Overlap, [Next]_vars
  PROVE  Honest'
<1>1. CASE UNCHANGED textVars
  BY <1>1 DEF textVars, Honest, OneActs, ClipIsAccounted, StagesAreSound, BorrowsAreSound, TakesOnlyItsOwn,
              Restores, Hurried, Idle, InHand, Sound, SitsAfter, Theirs
<1> QED
  BY <1>1, WriteToStayHonest, EndBorrowHonest, DecideHonest, CapturesHonest, WriteHonest, TakeHonest,
     PasteHonest, ReturnHonest, WakeHonest, CheckHonest, StampHonest, CopyHonest, BeginHonest
     DEF Next, Beside, Writing, Restoring, vars

\* And it is what the property asks, and more.
LEMMA HonestMeans ==
  ASSUME TextTypeOK, Honest
  PROVE  BorrowIsHonest
  BY DEF Honest, BorrowsAreSound, Sound, Theirs, BorrowIsHonest, OwedIsTheirs, TheirsToHave

\* delivery.rs:57-64, delivery.rs:99-105 whatever deliveries, copies and restores come after
\* one another, a transcript is never handed back as the person's, and a restore takes away
\* only what its delivery put there: for deliveries in turn, whose steps nothing comes between
\* where nothing is awaited.
THEOREM BorrowsAreHonest ==
  ASSUME ~Overlap, ~Simultaneous
  PROVE  Spec => []BorrowIsHonest
<1>1. Init => Honest /\ TextTypeOK
  BY HonestInit, TextInit
<1>2. Honest /\ TextTypeOK /\ [Next]_vars => (Honest /\ TextTypeOK)'
  BY HonestNext, TextTypes
<1>3. Honest /\ TextTypeOK => BorrowIsHonest
  BY HonestMeans
<1> QED BY <1>1, <1>2, <1>3, PTL DEF Spec

------------------------------------------------------------------------
(* The watch on the grant. *)

\* A message is an intent or the end of a tap.
LEMMA MessagesAre ==
  ASSUME NEW m \in Messages
  PROVE  /\ m.is \in {"autoPaste", "tapStopped"}
         /\ m.is = "autoPaste" => m.on \in BOOLEAN
  BY DEF Messages

LEMMA MessageKinds ==
  /\ [is |-> "tapStopped"] \in Messages
  /\ \A b \in BOOLEAN : [is |-> "autoPaste", on |-> b] \in Messages
  BY DEF Messages

\* The fields of the supervisor.
LEMMA SupervisorIs ==
  ASSUME WatchTypeOK
  PROVE  /\ sup \in Supervisors /\ {sup.wants, sup.running, sup.recent, sup.delay} \subseteq BOOLEAN
         /\ sup.attempt \in 0 .. Budget /\ Budget \in Nat
         /\ sup.phase \in {"inactive", "untrusted", "active", "broken"}
         /\ control \in Seq(Messages) /\ born \in Nat /\ live \in Nat
  BY WatchBoundsAssumption DEF WatchTypeOK, Supervisors

\* The channel, by position.
LEMMA ChannelTail ==
  ASSUME NEW queue \in Seq(Messages), queue # <<>>
  PROVE  /\ Tail(queue) \in Seq(Messages) /\ Len(Tail(queue)) = Len(queue) - 1
         /\ Len(queue) \in Nat \ {0} /\ Head(queue) = queue[1] /\ Head(queue) \in Messages
         /\ DOMAIN queue = 1 .. Len(queue) /\ DOMAIN Tail(queue) = 1 .. Len(queue) - 1
         /\ \A i \in 1 .. Len(queue) - 1 : Tail(queue)[i] = queue[i + 1]
<1>1. /\ Tail(queue) \in Seq(Messages) /\ Len(Tail(queue)) = Len(queue) - 1
      /\ Len(queue) \in Nat \ {0} /\ Head(queue) = queue[1] /\ Head(queue) \in Messages
      /\ \A i \in 1 .. Len(queue) - 1 : Tail(queue)[i] = queue[i + 1]
  BY EmptySeq
<1> QED BY <1>1

LEMMA ChannelGrows ==
  ASSUME NEW queue \in Seq(Messages), NEW m \in Messages
  PROVE  /\ Append(queue, m) \in Seq(Messages) /\ Len(Append(queue, m)) = Len(queue) + 1
         /\ Len(queue) \in Nat /\ Append(queue, m)[Len(queue) + 1] = m
         /\ DOMAIN queue = 1 .. Len(queue) /\ DOMAIN Append(queue, m) = 1 .. Len(queue) + 1
         /\ \A i \in 1 .. Len(queue) : Append(queue, m)[i] = queue[i]
<1>1. /\ Append(queue, m) \in Seq(Messages) /\ Len(Append(queue, m)) = Len(queue) + 1
      /\ Len(queue) \in Nat /\ Append(queue, m)[Len(queue) + 1] = m
      /\ \A i \in 1 .. Len(queue) : Append(queue, m)[i] = queue[i]
  OBVIOUS
<1> QED BY <1>1

\* What on_tap_stopped() leaves.
LEMMA StoppedEffect ==
  ASSUME WatchTypeOK, TapStopped
  PROVE  /\ sup' \in Supervisors /\ sup'.wants = sup.wants /\ ~sup'.running
         /\ sup'.phase = "active" => sup'.delay
         /\ sup'.delay => sup.wants
         /\ sup'.delay => sup'.phase = "active" \/ sup.delay
         /\ sup'.wants \/ sup'.phase = "inactive"
         /\ UNCHANGED <<stop, born>>
<1>1. /\ sup \in Supervisors /\ sup.attempt \in 0 .. Budget /\ Budget \in Nat
      /\ (sup.delay => sup.wants)
  BY SupervisorIs DEF WatchTypeOK
<1> DEFINE s == [sup EXCEPT !.running = FALSE]
           spent == IF sup.recent THEN sup.attempt ELSE 0
<1>2. /\ s \in Supervisors /\ ~s.running /\ s.wants = sup.wants /\ s.delay = sup.delay
  BY <1>1 DEF Supervisors
<1>2a. spent \in 0 .. Budget /\ 0 \in 0 .. Budget
  BY <1>1
<1>3. UNCHANGED <<stop, born>>
  BY DEF TapStopped, Nothing
<1>4. \/ ~s.wants /\ sup' = [s EXCEPT !.phase = "inactive"]
      \/ s.wants /\ sup' = [s EXCEPT !.phase = "untrusted", !.attempt = 0]
      \/ s.wants /\ sup' = [s EXCEPT !.recent = TRUE,
                           !.phase = IF spent >= Budget THEN "broken" ELSE "active",
                           !.attempt = IF spent >= Budget THEN spent ELSE spent + 1,
                           !.delay = spent < Budget]
  BY DEF TapStopped
<1> HIDE DEF s, spent
<1>5. CASE ~s.wants /\ sup' = [s EXCEPT !.phase = "inactive"]
  BY <1>1, <1>2, <1>3, <1>5 DEF Supervisors
<1>6. CASE s.wants /\ sup' = [s EXCEPT !.phase = "untrusted", !.attempt = 0]
  BY <1>1, <1>2, <1>3, <1>6, <1>2a DEF Supervisors
<1>7. CASE s.wants /\ sup' = [s EXCEPT !.recent = TRUE,
                           !.phase = IF spent >= Budget THEN "broken" ELSE "active",
                           !.attempt = IF spent >= Budget THEN spent ELSE spent + 1,
                           !.delay = spent < Budget]
  <2>1. /\ (IF spent >= Budget THEN "broken" ELSE "active") \in {"active", "broken"}
        /\ (IF spent >= Budget THEN spent ELSE spent + 1) \in 0 .. Budget
        /\ (spent < Budget) \in BOOLEAN
    BY <1>1, <1>2a
  <2>2. sup' \in Supervisors /\ sup'.wants = sup.wants /\ sup'.wants /\ sup.wants /\ ~sup'.running
    BY <1>2, <1>7, <2>1 DEF Supervisors
  <2>3. sup'.phase = (IF spent >= Budget THEN "broken" ELSE "active") /\ (sup'.delay <=> spent < Budget)
    BY <1>2, <1>7, <2>1 DEF Supervisors
  <2>4. (spent >= Budget) <=> ~(spent < Budget)
    BY <1>1, <1>2a
  <2>5. sup'.phase = "active" => sup'.delay
    <3>1. CASE spent < Budget
      BY <2>3, <3>1
    <3>2. CASE ~(spent < Budget)
      BY <2>3, <2>4, <3>2
    <3> QED BY <3>1, <3>2
  <2>6. sup'.delay => sup'.phase = "active"
    BY <2>3, <2>4
  <2> QED BY <1>3, <2>2, <2>5, <2>6
<1> QED BY <1>4, <1>5, <1>6, <1>7

\* What reconcile() leaves of a new intent.
LEMMA ReconcileEffect ==
  ASSUME WatchTypeOK, NEW b \in BOOLEAN, Reconcile(b)
  PROVE  /\ sup' \in Supervisors /\ sup'.wants = b /\ ~sup'.delay
         /\ \/ /\ ~b /\ sup'.phase = "inactive" /\ sup'.running = sup.running /\ born' = born
               /\ stop' \in BOOLEAN /\ (sup.running => stop') /\ (~sup.running => stop' = stop)
            \/ /\ b /\ sup'.phase = "untrusted" /\ sup'.running = sup.running
               /\ UNCHANGED <<stop, born>>
            \/ /\ b /\ sup'.phase = "active" /\ sup'.running /\ stop' = stop
               /\ born' = IF sup.running THEN born ELSE born + 1
<1>1. /\ sup \in Supervisors /\ 0 \in 0 .. Budget /\ stop \in BOOLEAN
  BY SupervisorIs DEF WatchTypeOK
<1> DEFINE s == [sup EXCEPT !.wants = b, !.attempt = 0, !.delay = FALSE]
<1>2. s \in Supervisors /\ s.wants = b /\ ~s.delay /\ s.running = sup.running
  BY <1>1 DEF Supervisors
<1>3. \/ ~b /\ sup' = [s EXCEPT !.phase = "inactive"] /\ IF s.running THEN StopTap ELSE Nothing
      \/ b /\ sup' = [s EXCEPT !.phase = "untrusted"] /\ Nothing
      \/ b /\ sup' = [s EXCEPT !.phase = "active", !.running = TRUE]
           /\ IF s.running THEN Nothing ELSE SpawnTap
  BY DEF Reconcile
<1> HIDE DEF s
<1>4. CASE ~b /\ sup' = [s EXCEPT !.phase = "inactive"] /\ IF s.running THEN StopTap ELSE Nothing
  BY <1>1, <1>2, <1>4 DEF Supervisors, StopTap, Nothing
<1>5. CASE b /\ sup' = [s EXCEPT !.phase = "untrusted"] /\ Nothing
  BY <1>2, <1>5 DEF Supervisors, Nothing
<1>6. CASE b /\ sup' = [s EXCEPT !.phase = "active", !.running = TRUE]
             /\ IF s.running THEN Nothing ELSE SpawnTap
  BY <1>2, <1>6 DEF Supervisors, Nothing, SpawnTap
<1> QED BY <1>3, <1>4, <1>5, <1>6

\* What an elapsed wait leaves.
LEMMA TimeoutEffect ==
  ASSUME WatchTypeOK, Timeout
  PROVE  /\ sup' \in Supervisors /\ sup'.wants /\ sup.wants /\ ~sup'.delay /\ stop' = stop
         /\ \/ sup.delay /\ sup'.running /\ sup'.phase = sup.phase /\ born' = born + 1
            \/ ~sup.delay /\ sup.phase = "untrusted" /\ sup'.running /\ sup'.phase = "active"
               /\ born' = born + 1
            \/ ~sup.delay /\ sup.phase = "broken" /\ sup'.running = sup.running
               /\ sup'.phase = "untrusted" /\ born' = born
<1>1. /\ sup \in Supervisors /\ 0 \in 0 .. Budget /\ (sup.delay => sup.wants)
  BY SupervisorIs DEF WatchTypeOK
<1>2. sup.wants
  BY <1>1 DEF Timeout, Waits
<1>3. CASE sup.delay /\ sup' = [sup EXCEPT !.delay = FALSE, !.running = TRUE] /\ SpawnTap
  BY <1>1, <1>2, <1>3 DEF Supervisors, SpawnTap
<1>4. CASE /\ ~sup.delay /\ sup.phase = "untrusted" /\ SpawnTap
           /\ sup' = [sup EXCEPT !.running = TRUE, !.attempt = 0, !.phase = "active"]
  BY <1>1, <1>2, <1>4 DEF Supervisors, SpawnTap
<1>5. CASE /\ ~sup.delay /\ sup.phase = "broken" /\ Nothing
           /\ sup' = [sup EXCEPT !.attempt = 0, !.phase = "untrusted"]
  BY <1>1, <1>2, <1>5 DEF Supervisors, Nothing
<1> QED BY <1>3, <1>4, <1>5 DEF Timeout

LEMMA LapseEffect ==
  ASSUME WatchTypeOK, WindowLapses
  PROVE  /\ sup' \in Supervisors /\ sup'.wants = sup.wants /\ sup'.running = sup.running
         /\ sup'.delay = sup.delay /\ sup'.phase = sup.phase
  BY SupervisorIs DEF WindowLapses, Supervisors

\* What the head of the channel is, and whether the end of a tap is on its way.
LEMMA DyingIs ==
  ASSUME WatchTypeOK
  PROVE  /\ Dying <=> \E i \in DOMAIN control : ~Tells(control, i)
         /\ \A i \in DOMAIN control : control[i] \in Messages /\ (~Tells(control, i) <=> control[i].is = "tapStopped")
<1>1. \A i \in DOMAIN control : control[i] \in Messages
  BY DEF WatchTypeOK
<1> QED BY <1>1, MessagesAre DEF Dying, Tells

\* A message that is taken leaves the end of a tap on its way, unless it was that.
LEMMA HandledDying ==
  ASSUME WatchTypeOK, control # <<>>, control' = Tail(control), Head(control).is = "autoPaste"
  PROVE  Dying => Dying'
<1> SUFFICES ASSUME Dying PROVE Dying'
  OBVIOUS
<1>1. /\ DOMAIN control = 1 .. Len(control) /\ DOMAIN control' = 1 .. Len(control) - 1
      /\ Len(control) \in Nat /\ Head(control) = control[1]
      /\ \A i \in 1 .. Len(control) - 1 : control'[i] = control[i + 1]
  BY ChannelTail DEF WatchTypeOK
<1>2. PICK i \in DOMAIN control : control[i].is = "tapStopped"
  BY DEF Dying
<1>3. i - 1 \in DOMAIN control' /\ control'[i - 1] = control[i]
  BY <1>1, <1>2
<1> QED BY <1>2, <1>3 DEF Dying

\* A message that is sent comes behind the others.
LEMMA SentDying ==
  ASSUME WatchTypeOK, NEW m \in Messages, control' = Append(control, m)
  PROVE  Dying' <=> Dying \/ m.is = "tapStopped"
<1>1. /\ DOMAIN control = 1 .. Len(control) /\ DOMAIN control' = 1 .. Len(control) + 1
      /\ Len(control) \in Nat /\ control'[Len(control) + 1] = m
      /\ \A i \in 1 .. Len(control) : control'[i] = control[i]
  BY ChannelGrows DEF WatchTypeOK
<1>2. ASSUME Dying PROVE Dying'
  BY <1>1, <1>2 DEF Dying
<1>3. ASSUME m.is = "tapStopped" PROVE Dying'
  <2>1. Len(control) + 1 \in DOMAIN control'
    BY <1>1
  <2> QED BY <1>1, <1>3, <2>1 DEF Dying
<1>4. ASSUME Dying' PROVE Dying \/ m.is = "tapStopped"
  <2>1. PICK i \in 1 .. Len(control) + 1 : control'[i].is = "tapStopped"
    BY <1>1, <1>4 DEF Dying
  <2>2. i \in 1 .. Len(control) \/ i = Len(control) + 1
    BY <1>1, <2>1
  <2> QED BY <1>1, <2>1, <2>2 DEF Dying
<1> QED BY <1>2, <1>3, <1>4

\* The types, and that `active` stands for a tap or for its restart, whatever the page pushes
\* and however late threads are.
Stood == WatchTypeOK /\ StandsForTap

LEMMA HandleStood ==
  ASSUME Stood, Handle
  PROVE  Stood'
<1>1. /\ WatchTypeOK /\ control # <<>> /\ control' = Tail(control)
      /\ UNCHANGED <<intent, live>> /\ live \in Nat /\ born \in Nat
  BY SupervisorIs DEF Stood, Handle, outside
<1>2. control' \in Seq(Messages) /\ Head(control) \in Messages
  BY <1>1, ChannelTail DEF WatchTypeOK
<1>3. CASE TapStopped
  <2>1. /\ sup' \in Supervisors /\ sup'.wants = sup.wants /\ ~sup'.running
        /\ (sup'.phase = "active" => sup'.delay) /\ (sup'.delay => sup.wants)
        /\ UNCHANGED <<stop, born>>
    BY <1>1, <1>3, StoppedEffect
  <2> QED BY <1>1, <1>2, <2>1 DEF Stood, StandsForTap, WatchTypeOK, capability
<1>4. CASE Head(control).is = "autoPaste" /\ Reconcile(Head(control).on)
  <2> DEFINE b == Head(control).on
  <2>1. b \in BOOLEAN
    BY <1>2, <1>4, MessagesAre
  <2>2. Dying => Dying'
    BY <1>1, <1>4, HandledDying
  <2> HIDE DEF b
  <2>3. /\ sup' \in Supervisors /\ ~sup'.delay
        /\ \/ /\ sup'.phase = "inactive" /\ sup'.running = sup.running /\ born' = born
              /\ stop' \in BOOLEAN
           \/ /\ sup'.phase = "untrusted" /\ sup'.running = sup.running
              /\ UNCHANGED <<stop, born>>
           \/ /\ sup'.phase = "active" /\ sup'.running /\ stop' = stop
              /\ born' = IF sup.running THEN born ELSE born + 1
    BY <1>1, <1>4, <2>1, ReconcileEffect DEF b
  <2>4. WatchTypeOK'
    BY <1>1, <1>2, <2>3 DEF WatchTypeOK
  <2>5. sup'.running => born' + live' > 0 \/ Dying'
    <3>1. CASE sup'.running = sup.running /\ born' = born
      BY <1>1, <2>2, <3>1 DEF Stood, StandsForTap
    <3>2. CASE sup.running /\ born' = born
      BY <1>1, <2>2, <3>2 DEF Stood, StandsForTap
    <3>3. CASE born' = born + 1
      BY <1>1, <3>3
    <3> QED BY <2>3, <3>1, <3>2, <3>3
  <2>6. sup'.phase = "active" => sup'.running
    BY <2>3
  <2> QED BY <2>4, <2>5, <2>6 DEF Stood, StandsForTap, capability
<1> QED BY <1>3, <1>4 DEF Handle

LEMMA TimeoutStood ==
  ASSUME Stood, Timeout
  PROVE  Stood'
<1>1. /\ WatchTypeOK /\ UNCHANGED <<intent, control, live>> /\ live \in Nat /\ born \in Nat
      /\ control \in Seq(Messages) /\ {intent, stop} \subseteq BOOLEAN
  BY SupervisorIs DEF Stood, Timeout, outside, WatchTypeOK
<1>2. Dying' <=> Dying
  BY <1>1 DEF Dying
<1>3. /\ sup' \in Supervisors /\ ~sup'.delay /\ stop' = stop
      /\ \/ sup'.running /\ born' = born + 1
         \/ sup'.running = sup.running /\ sup'.phase = "untrusted" /\ born' = born
  BY <1>1, TimeoutEffect
<1>4. WatchTypeOK'
  BY <1>1, <1>3 DEF WatchTypeOK
<1>5. CASE sup'.running /\ born' = born + 1
  BY <1>1, <1>4, <1>5 DEF Stood, StandsForTap, capability
<1>6. CASE sup'.running = sup.running /\ sup'.phase = "untrusted" /\ born' = born
  BY <1>1, <1>2, <1>4, <1>6 DEF Stood, StandsForTap, capability
<1> QED BY <1>3, <1>5, <1>6

LEMMA ThreadStood ==
  ASSUME Stood, Listen \/ Exits
  PROVE  Stood'
<1>1. /\ WatchTypeOK /\ UNCHANGED <<intent, sup>> /\ live \in Nat /\ born \in Nat
      /\ sup \in Supervisors /\ stop \in BOOLEAN
  BY SupervisorIs DEF Stood, Listen, Exits, outside, WatchTypeOK
<1>2. /\ born' \in Nat /\ live' \in Nat /\ stop' \in BOOLEAN
      /\ \/ control' = control /\ born' + live' = born + live
         \/ TapStops
  <2>1. CASE Listen
    <3>0. stop' \in BOOLEAN
      BY <2>1, Zenon DEF Listen
    <3>1. born' = born - 1 /\ born > 0
          /\ \/ live' = live + 1 /\ control' = control
             \/ TapStops /\ live' = live
      BY <2>1 DEF Listen
    <3>2. born' \in Nat /\ stop' \in BOOLEAN
      BY <1>1, <3>0, <3>1
    <3>3. CASE live' = live + 1 /\ control' = control
      <4>1. live' \in Nat /\ born' + live' = born + live
        BY <1>1, <3>1, <3>3
      <4> QED BY <3>2, <3>3, <4>1
    <3>4. CASE TapStops /\ live' = live
      BY <1>1, <3>2, <3>4
    <3> QED BY <3>1, <3>3, <3>4
  <2>2. CASE Exits
    <3>1. /\ born' = born /\ stop' = stop /\ TapStops /\ live > 0 /\ live' = live - 1
      BY <2>2 DEF Exits
    <3>2. live' \in Nat
      BY <1>1, <3>1
    <3> QED BY <1>1, <3>1, <3>2
  <2> QED BY <2>1, <2>2
<1>3. control' \in Seq(Messages) /\ (born + live > 0 \/ Dying => born' + live' > 0 \/ Dying')
  <2>1. CASE control' = control /\ born' + live' = born + live
    BY <1>1, <2>1 DEF WatchTypeOK, Dying
  <2>2. CASE TapStops
    <3> DEFINE m == [is |-> "tapStopped"]
    <3>1. m \in Messages /\ m.is = "tapStopped" /\ control' = Append(control, m)
      BY <2>2, MessageKinds DEF TapStops
    <3> HIDE DEF m
    <3>2. Dying'
      BY <1>1, <3>1, SentDying
    <3>3. control' \in Seq(Messages)
      BY <1>1, <3>1, ChannelGrows DEF WatchTypeOK
    <3> QED BY <3>2, <3>3
  <2> QED BY <1>2, <2>1, <2>2
<1>4. WatchTypeOK'
  BY <1>1, <1>2, <1>3 DEF WatchTypeOK
<1> QED BY <1>1, <1>3, <1>4 DEF Stood, StandsForTap, capability

LEMMA OutsideStood ==
  ASSUME Stood,
         \/ \E g \in {"absent", "healthy", "stale"} : Turn(g)
         \/ \E b \in BOOLEAN : Push(b)
         \/ WindowLapses \/ UNCHANGED watchVars
  PROVE  Stood'
<1>1. WatchTypeOK
  BY DEF Stood
<1>2. CASE \E b \in BOOLEAN : Push(b)
  <2>1. PICK b \in BOOLEAN : Push(b)
    BY <1>2
  <2> DEFINE m == [is |-> "autoPaste", on |-> b]
  <2>2. /\ m \in Messages /\ m.is = "autoPaste" /\ control' = Append(control, m)
        /\ intent' = b /\ UNCHANGED <<sup, stop, born, live>>
    BY <2>1, MessageKinds DEF Push, threads
  <2> HIDE DEF m
  <2>3. Dying' <=> Dying
    BY <1>1, <2>2, SentDying
  <2>4. control' \in Seq(Messages)
    BY <1>1, <2>2, ChannelGrows DEF WatchTypeOK
  <2> QED BY <1>1, <2>2, <2>3, <2>4 DEF Stood, StandsForTap, WatchTypeOK, capability
<1>3. CASE WindowLapses
  <2>1. UNCHANGED <<intent, control, stop, born, live>>
    BY <1>3 DEF WindowLapses, outside, threads
  <2>2. /\ sup' \in Supervisors /\ sup'.wants = sup.wants /\ sup'.running = sup.running
        /\ sup'.delay = sup.delay /\ sup'.phase = sup.phase
    BY <1>1, <1>3, LapseEffect
  <2> QED BY <1>1, <2>1, <2>2 DEF Stood, StandsForTap, WatchTypeOK, capability, Dying
<1>4. CASE UNCHANGED <<intent, control, sup, stop, born, live>>
  BY <1>4 DEF Stood, StandsForTap, WatchTypeOK, capability, Dying
<1> QED BY <1>2, <1>3, <1>4 DEF Turn, threads, watchVars, outside

LEMMA StoodInit == WatchInit => Stood
<1> SUFFICES ASSUME WatchInit PROVE Stood
  OBVIOUS
<1>1. sup \in Supervisors /\ ~sup.delay /\ ~sup.running /\ sup.phase = "inactive"
  BY WatchBoundsAssumption DEF WatchInit, Dormant, Supervisors
<1>2. control \in Seq(Messages) /\ {born, live} \subseteq Nat /\ {intent, stop} \subseteq BOOLEAN
  <2>1. control = <<>> /\ born = 0 /\ live = 0
    BY DEF WatchInit
  <2>2. intent \in BOOLEAN /\ stop \in BOOLEAN
    BY Zenon DEF WatchInit
  <2> QED BY <2>1, <2>2, EmptySeq
<1> QED BY <1>1, <1>2 DEF Stood, WatchTypeOK, StandsForTap, capability

LEMMA StoodNext == Stood /\ [WatchNext]_watchVars => Stood'
  BY HandleStood, TimeoutStood, ThreadStood, OutsideStood DEF WatchNext

\* What alternates still does when nothing is sent or read, when an intent other than the last is
\* sent, when a tap's end is sent or read, and when the first intent is read.
LEMMA AlternatingPush ==
  ASSUME NEW queue \in Seq(Messages), NEW wants \in BOOLEAN, NEW last \in BOOLEAN, NEW b \in BOOLEAN,
         NEW m \in Messages, m.is = "autoPaste", m.on = b, b # last, Alternating(queue, wants, last)
  PROVE  Alternating(Append(queue, m), wants, b)
<1> DEFINE longer == Append(queue, m)
           n == Len(queue)
<1>1. /\ n \in Nat /\ Len(longer) = n + 1 /\ longer[n + 1] = m
      /\ DOMAIN queue = 1 .. n /\ DOMAIN longer = 1 .. n + 1
      /\ \A i \in 1 .. n : longer[i] = queue[i]
  BY ChannelGrows
<1> HIDE DEF longer, n
<1>2. Tells(longer, n + 1) /\ \A i \in 1 .. n : Tells(longer, i) <=> Tells(queue, i)
  BY <1>1 DEF Tells
<1>3. ASSUME NEW i \in DOMAIN longer, Tells(longer, i), \A k \in 1 .. i - 1 : ~Tells(longer, k)
      PROVE  longer[i].on # wants
  <2>1. CASE i \in 1 .. n
    <3>1. \A k \in 1 .. i - 1 : ~Tells(queue, k)
      BY <1>1, <1>2, <1>3, <2>1
    <3> QED BY <1>1, <1>2, <1>3, <2>1, <3>1 DEF Alternating
  <2>2. CASE i = n + 1
    <3>1. \A k \in 1 .. n : ~Tells(queue, k)
      BY <1>1, <1>2, <1>3, <2>2
    <3>2. last = wants
      BY <1>1, <3>1 DEF Alternating
    <3> QED BY <1>1, <2>2, <3>2
  <2> QED BY <1>1, <1>3, <2>1, <2>2
<1>4. ASSUME NEW i \in DOMAIN longer, NEW j \in DOMAIN longer, i < j, Tells(longer, i), Tells(longer, j),
             \A k \in i + 1 .. j - 1 : ~Tells(longer, k)
      PROVE  longer[i].on # longer[j].on
  <2>1. i \in 1 .. n
    BY <1>1, <1>4
  <2>2. CASE j \in 1 .. n
    <3>1. \A k \in i + 1 .. j - 1 : ~Tells(queue, k)
      BY <1>1, <1>2, <1>4, <2>1, <2>2
    <3> QED BY <1>1, <1>2, <1>4, <2>1, <2>2, <3>1 DEF Alternating
  <2>3. CASE j = n + 1
    <3>1. \A k \in i + 1 .. n : ~Tells(queue, k)
      BY <1>1, <1>2, <1>4, <2>1, <2>3
    <3>2. queue[i].on = last
      BY <1>1, <1>2, <1>4, <2>1, <3>1 DEF Alternating, n
    <3> QED BY <1>1, <2>1, <2>3, <3>2
  <2> QED BY <1>1, <1>4, <2>2, <2>3
<1>5. ASSUME NEW i \in DOMAIN longer, Tells(longer, i), \A k \in i + 1 .. Len(longer) : ~Tells(longer, k)
      PROVE  longer[i].on = b
  <2>1. i = n + 1
    BY <1>1, <1>2, <1>5
  <2> QED BY <1>1, <2>1
<1>6. ~\A i \in DOMAIN longer : ~Tells(longer, i)
  BY <1>1, <1>2
<1> QED BY <1>3, <1>4, <1>5, <1>6 DEF Alternating, longer

LEMMA AlternatingEnd ==
  ASSUME NEW queue \in Seq(Messages), NEW wants \in BOOLEAN, NEW last \in BOOLEAN,
         NEW m \in Messages, m.is = "tapStopped", Alternating(queue, wants, last)
  PROVE  Alternating(Append(queue, m), wants, last)
<1> DEFINE longer == Append(queue, m)
           n == Len(queue)
<1>1. /\ n \in Nat /\ Len(longer) = n + 1 /\ longer[n + 1] = m
      /\ DOMAIN queue = 1 .. n /\ DOMAIN longer = 1 .. n + 1
      /\ \A i \in 1 .. n : longer[i] = queue[i]
  BY ChannelGrows
<1> HIDE DEF longer, n
<1>2. ~Tells(longer, n + 1) /\ \A i \in 1 .. n : Tells(longer, i) <=> Tells(queue, i)
  BY <1>1 DEF Tells
<1>3. \A i \in DOMAIN longer : Tells(longer, i) => i \in 1 .. n
  BY <1>1, <1>2
<1>4. ASSUME NEW i \in DOMAIN longer, Tells(longer, i), \A k \in 1 .. i - 1 : ~Tells(longer, k)
      PROVE  longer[i].on # wants
  <2>1. i \in 1 .. n /\ \A k \in 1 .. i - 1 : ~Tells(queue, k)
    BY <1>1, <1>2, <1>3, <1>4
  <2> QED BY <1>1, <1>2, <1>4, <2>1 DEF Alternating
<1>5. ASSUME NEW i \in DOMAIN longer, NEW j \in DOMAIN longer, i < j, Tells(longer, i), Tells(longer, j),
             \A k \in i + 1 .. j - 1 : ~Tells(longer, k)
      PROVE  longer[i].on # longer[j].on
  <2>1. i \in 1 .. n /\ j \in 1 .. n
    BY <1>3, <1>5
  <2>2. \A k \in i + 1 .. j - 1 : ~Tells(queue, k)
    BY <1>1, <1>2, <1>5, <2>1
  <2> QED BY <1>1, <1>2, <1>5, <2>1, <2>2 DEF Alternating
<1>6. ASSUME NEW i \in DOMAIN longer, Tells(longer, i), \A k \in i + 1 .. Len(longer) : ~Tells(longer, k)
      PROVE  longer[i].on = last
  <2>1. i \in 1 .. n
    BY <1>3, <1>6
  <2>2. \A k \in i + 1 .. n : ~Tells(queue, k)
    BY <1>1, <1>2, <1>6, <2>1
  <2> QED BY <1>1, <1>2, <1>6, <2>1, <2>2 DEF Alternating, n
<1>7. (\A i \in DOMAIN longer : ~Tells(longer, i)) => last = wants
  BY <1>1, <1>2 DEF Alternating
<1> QED BY <1>4, <1>5, <1>6, <1>7 DEF Alternating, longer

LEMMA AlternatingTail ==
  ASSUME NEW queue \in Seq(Messages), queue # <<>>, NEW wants \in BOOLEAN, NEW last \in BOOLEAN,
         Alternating(queue, wants, last)
  PROVE  /\ ~Tells(queue, 1) => Alternating(Tail(queue), wants, last)
         /\ Tells(queue, 1) => /\ Head(queue).on # wants
                              /\ Alternating(Tail(queue), Head(queue).on, last)
<1> DEFINE rest == Tail(queue)
           n == Len(queue)
           now == IF Tells(queue, 1) THEN queue[1].on ELSE wants
<1>1. /\ n \in Nat \ {0} /\ Len(rest) = n - 1 /\ Head(queue) = queue[1]
      /\ DOMAIN queue = 1 .. n /\ DOMAIN rest = 1 .. n - 1
      /\ \A i \in 1 .. n - 1 : rest[i] = queue[i + 1]
  BY ChannelTail
<1> HIDE DEF rest, n
<1>2. \A i \in 1 .. n - 1 : Tells(rest, i) <=> Tells(queue, i + 1)
  BY <1>1 DEF Tells
\* Between two positions of the rest nobody is told who is not between them in the queue.
<1>3. ASSUME NEW a \in Nat, NEW b \in Nat, b <= n - 1, \A k \in a + 1 .. b : ~Tells(rest, k)
      PROVE  \A k \in a + 2 .. b + 1 : ~Tells(queue, k)
  <2> SUFFICES ASSUME NEW k \in a + 2 .. b + 1 PROVE ~Tells(queue, k)
    OBVIOUS
  <2>1. k - 1 \in 1 .. n - 1 /\ k - 1 \in a + 1 .. b /\ (k - 1) + 1 = k
    BY <1>1, <1>3
  <2> QED BY <1>2, <1>3, <2>1
<1>4. ASSUME NEW i \in DOMAIN rest, Tells(rest, i), \A k \in 1 .. i - 1 : ~Tells(rest, k)
      PROVE  rest[i].on # now
  <2>1. i \in 1 .. n - 1 /\ rest[i] = queue[i + 1] /\ Tells(queue, i + 1) /\ i + 1 \in 1 .. n
    BY <1>1, <1>2, <1>4
  <2>2. \A k \in 2 .. i : ~Tells(queue, k)
    <3>1. 0 \in Nat /\ i - 1 \in Nat /\ i - 1 <= n - 1 /\ \A k \in 0 + 1 .. i - 1 : ~Tells(rest, k)
      BY <1>1, <1>4, <2>1
    <3>2. \A k \in 0 + 2 .. (i - 1) + 1 : ~Tells(queue, k)
      BY <1>3, <3>1
    <3> QED BY <2>1, <3>2
  <2>3. CASE Tells(queue, 1)
    <3>1. /\ \A k \in 1 + 1 .. (i + 1) - 1 : ~Tells(queue, k)
          /\ 1 \in DOMAIN queue /\ i + 1 \in DOMAIN queue /\ 1 < i + 1
      BY <1>1, <2>1, <2>2
    <3>2. queue[1].on # queue[i + 1].on
      BY <2>1, <2>3, <3>1 DEF Alternating
    <3> QED BY <2>1, <2>3, <3>2
  <2>4. CASE ~Tells(queue, 1)
    <3>1. \A k \in 1 .. (i + 1) - 1 : ~Tells(queue, k)
      BY <2>1, <2>2, <2>4
    <3>2. queue[i + 1].on # wants
      BY <1>1, <2>1, <3>1 DEF Alternating
    <3> QED BY <2>1, <2>4, <3>2
  <2> QED BY <2>3, <2>4
<1>5. ASSUME NEW i \in DOMAIN rest, NEW j \in DOMAIN rest, i < j, Tells(rest, i), Tells(rest, j),
             \A k \in i + 1 .. j - 1 : ~Tells(rest, k)
      PROVE  rest[i].on # rest[j].on
  <2>1. /\ i \in 1 .. n - 1 /\ j \in 1 .. n - 1 /\ i + 1 \in 1 .. n /\ j + 1 \in 1 .. n
        /\ i + 1 < j + 1 /\ Tells(queue, i + 1) /\ Tells(queue, j + 1)
        /\ rest[i] = queue[i + 1] /\ rest[j] = queue[j + 1]
    BY <1>1, <1>2, <1>5
  <2>2. i \in Nat /\ j - 1 \in Nat /\ j - 1 <= n - 1
    BY <1>1, <2>1
  <2>3. \A k \in i + 2 .. (j - 1) + 1 : ~Tells(queue, k)
    BY <1>3, <1>5, <2>2
  <2>4. \A k \in (i + 1) + 1 .. (j + 1) - 1 : ~Tells(queue, k)
    BY <2>1, <2>3
  <2> QED BY <1>1, <2>1, <2>4 DEF Alternating
<1>6. ASSUME NEW i \in DOMAIN rest, Tells(rest, i), \A k \in i + 1 .. Len(rest) : ~Tells(rest, k)
      PROVE  rest[i].on = last
  <2>1. i \in 1 .. n - 1 /\ i + 1 \in 1 .. n /\ Tells(queue, i + 1) /\ rest[i] = queue[i + 1]
    BY <1>1, <1>2, <1>6
  <2>2. i \in Nat /\ n - 1 \in Nat /\ n - 1 <= n - 1 /\ Len(rest) = n - 1
    BY <1>1, <2>1
  <2>3. \A k \in i + 2 .. (n - 1) + 1 : ~Tells(queue, k)
    BY <1>3, <1>6, <2>2
  <2>4. \A k \in (i + 1) + 1 .. n : ~Tells(queue, k)
    BY <1>1, <2>1, <2>3
  <2> QED BY <1>1, <2>1, <2>4 DEF Alternating, n
<1>7. (\A i \in DOMAIN rest : ~Tells(rest, i)) => last = now
  <2> SUFFICES ASSUME \A i \in DOMAIN rest : ~Tells(rest, i) PROVE last = now
    OBVIOUS
  <2>1. \A k \in 2 .. n : ~Tells(queue, k)
    <3> SUFFICES ASSUME NEW k \in 2 .. n PROVE ~Tells(queue, k)
      OBVIOUS
    <3>1. k - 1 \in 1 .. n - 1 /\ (k - 1) + 1 = k
      BY <1>1
    <3> QED BY <1>1, <1>2, <3>1
  <2>2. CASE Tells(queue, 1)
    <3>1. 1 \in DOMAIN queue /\ \A k \in 1 + 1 .. n : ~Tells(queue, k)
      BY <1>1, <2>1
    <3>2. queue[1].on = last
      BY <2>2, <3>1 DEF Alternating, n
    <3> QED BY <2>2, <3>2
  <2>3. CASE ~Tells(queue, 1)
    <3>1. \A k \in DOMAIN queue : ~Tells(queue, k)
      BY <1>1, <2>1, <2>3
    <3> QED BY <2>3, <3>1 DEF Alternating
  <2> QED BY <2>2, <2>3
<1>8. Tells(queue, 1) => Head(queue).on # wants
  <2> SUFFICES ASSUME Tells(queue, 1) PROVE queue[1].on # wants
    BY <1>1
  <2>1. 1 \in DOMAIN queue /\ \A k \in 1 .. 1 - 1 : ~Tells(queue, k)
    BY <1>1
  <2> QED BY <2>1 DEF Alternating
<1> HIDE DEF now
<1>9. Alternating(rest, now, last)
  BY <1>4, <1>5, <1>6, <1>7 DEF Alternating
<1>10. (Tells(queue, 1) => now = Head(queue).on) /\ (~Tells(queue, 1) => now = wants)
  BY <1>1 DEF now
<1> QED BY <1>8, <1>9, <1>10 DEF rest

\* At most one end of a tap is on its way.
Sole(queue) ==
    \A i, j \in DOMAIN queue : ~Tells(queue, i) /\ ~Tells(queue, j) => i = j
HoldsEnd(queue) == \E i \in DOMAIN queue : ~Tells(queue, i)

LEMMA SoleTail ==
  ASSUME NEW queue \in Seq(Messages), queue # <<>>, Sole(queue)
  PROVE  /\ Sole(Tail(queue)) /\ (HoldsEnd(Tail(queue)) => HoldsEnd(queue))
         /\ ~Tells(queue, 1) => HoldsEnd(queue) /\ ~HoldsEnd(Tail(queue))
<1> DEFINE rest == Tail(queue)
           n == Len(queue)
<1>1. /\ n \in Nat \ {0} /\ DOMAIN queue = 1 .. n /\ DOMAIN rest = 1 .. n - 1
      /\ \A i \in 1 .. n - 1 : rest[i] = queue[i + 1]
  BY ChannelTail
<1> HIDE DEF rest, n
<1>2. \A i \in DOMAIN rest : /\ i + 1 \in DOMAIN queue /\ i + 1 # 1 /\ i \in Nat
                             /\ Tells(rest, i) <=> Tells(queue, i + 1)
  BY <1>1 DEF Tells
<1>3. Sole(rest)
  <2> SUFFICES ASSUME NEW i \in DOMAIN rest, NEW j \in DOMAIN rest, ~Tells(rest, i), ~Tells(rest, j)
               PROVE  i = j
    BY DEF Sole
  <2>1. i + 1 = j + 1
    BY <1>2 DEF Sole
  <2> QED BY <1>2, <2>1
<1>4. HoldsEnd(rest) => HoldsEnd(queue)
  BY <1>2 DEF HoldsEnd
<1>5. ~Tells(queue, 1) => HoldsEnd(queue) /\ ~HoldsEnd(rest)
  <2>1. 1 \in DOMAIN queue
    BY <1>1
  <2> QED BY <1>2, <2>1 DEF HoldsEnd, Sole
<1> QED BY <1>3, <1>4, <1>5 DEF rest

LEMMA SoleGrows ==
  ASSUME NEW queue \in Seq(Messages), NEW m \in Messages, Sole(queue),
         m.is = "autoPaste" \/ ~HoldsEnd(queue)
  PROVE  Sole(Append(queue, m))
<1> DEFINE longer == Append(queue, m)
           n == Len(queue)
<1>1. /\ n \in Nat /\ longer[n + 1] = m
      /\ DOMAIN queue = 1 .. n /\ DOMAIN longer = 1 .. n + 1
      /\ \A i \in 1 .. n : longer[i] = queue[i]
  BY ChannelGrows
<1> HIDE DEF longer, n
<1>2. \A i \in 1 .. n : Tells(longer, i) <=> Tells(queue, i)
  BY <1>1 DEF Tells
<1> SUFFICES ASSUME NEW i \in DOMAIN longer, NEW j \in DOMAIN longer,
                    ~Tells(longer, i), ~Tells(longer, j)
             PROVE  i = j
  BY DEF Sole, longer
<1>3. CASE m.is = "autoPaste"
  <2>1. Tells(longer, n + 1)
    BY <1>1, <1>3 DEF Tells
  <2>2. i \in 1 .. n /\ j \in 1 .. n
    BY <1>1, <2>1
  <2> QED BY <1>1, <1>2, <2>2 DEF Sole
<1>4. CASE ~HoldsEnd(queue)
  <2>1. \A k \in 1 .. n : Tells(longer, k)
    BY <1>1, <1>2, <1>4 DEF HoldsEnd
  <2>2. i = n + 1 /\ j = n + 1
    BY <1>1, <2>1
  <2> QED BY <2>2
<1> QED BY <1>3, <1>4

\* The whole invariant, of a page that pushes changes only and of threads that are prompt.
Whole == Stood /\ Alternating(control, sup.wants, intent) /\ OneWatcher /\ AskedToStop

\* What it says, in the words of the steps.
LEMMA WholeIs ==
  ASSUME Whole
  PROVE  /\ WatchTypeOK /\ control \in Seq(Messages) /\ {sup.wants, intent} \subseteq BOOLEAN
         /\ born \in Nat /\ live \in Nat /\ born + live <= 1
         /\ Sole(control) /\ (Dying <=> HoldsEnd(control)) /\ (Dying => born + live = 0)
         /\ born + live > 0 \/ Dying => sup.running
         /\ Alternating(control, sup.wants, intent) /\ AskedToStop
         /\ (sup.delay => sup.wants /\ ~sup.running)
<1>1. WatchTypeOK
  BY DEF Whole, Stood
<1>2. /\ control \in Seq(Messages) /\ {sup.wants, intent} \subseteq BOOLEAN
      /\ born \in Nat /\ live \in Nat /\ (sup.delay => sup.wants /\ ~sup.running)
  BY <1>1, SupervisorIs DEF WatchTypeOK
<1>3. Dying <=> HoldsEnd(control)
  BY <1>1, DyingIs DEF HoldsEnd
<1> QED BY <1>1, <1>2, <1>3 DEF Whole, OneWatcher, OneTap, Sole

LEMMA EndsAre == WatchTypeOK => (Dying <=> HoldsEnd(control))
  BY DyingIs DEF HoldsEnd

LEMMA EndsAfter == WatchTypeOK' => (Dying' <=> HoldsEnd(control)')
  BY EndsAre, PTL

\* What the supervisor and the taps are after a step, given what became of the channel.
LEMMA WholeAfter ==
  ASSUME Stood', Sole(control'), Alternating(control', sup'.wants, intent'),
         born' + live' <= 1, HoldsEnd(control') => born' + live' = 0,
         born' + live' > 0 \/ HoldsEnd(control') => sup'.running, AskedToStop'
  PROVE  Whole'
<1>1. Dying' <=> HoldsEnd(control')
  BY EndsAfter DEF Stood, HoldsEnd, Tells
<1> QED BY <1>1 DEF Whole, OneWatcher, OneTap, Sole, Tells, Alternating

LEMMA HandleWhole ==
  ASSUME Brisk, Whole, Stood', Handle
  PROVE  Whole'
<1>1. /\ WatchTypeOK /\ control \in Seq(Messages) /\ {sup.wants, intent} \subseteq BOOLEAN
      /\ born \in Nat /\ live \in Nat /\ born + live <= 1
      /\ Sole(control) /\ (Dying <=> HoldsEnd(control)) /\ (Dying => born + live = 0)
      /\ (born + live > 0 \/ Dying => sup.running)
      /\ Alternating(control, sup.wants, intent) /\ AskedToStop
      /\ (sup.delay => sup.wants /\ ~sup.running)
  BY WholeIs
<1>2. control # <<>> /\ control' = Tail(control) /\ UNCHANGED <<intent, live>>
  BY DEF Handle, outside
<1>3. /\ Head(control) = control[1] /\ Head(control) \in Messages
      /\ Sole(control') /\ (HoldsEnd(control') => HoldsEnd(control))
      /\ (~Tells(control, 1) => HoldsEnd(control) /\ ~HoldsEnd(control'))
  BY <1>1, <1>2, ChannelTail, SoleTail
<1>4. /\ ~Tells(control, 1) => Alternating(control', sup.wants, intent)
      /\ Tells(control, 1) => /\ Head(control).on # sup.wants
                             /\ Alternating(control', Head(control).on, intent)
  BY <1>1, <1>2, AlternatingTail
<1>5. CASE Head(control).is = "tapStopped" /\ TapStopped
  <2>1. ~Tells(control, 1)
    BY <1>3, <1>5 DEF Tells
  <2>2. sup.running /\ ~sup.delay /\ born = 0 /\ live = 0
    BY <1>1, <1>3, <2>1
  <2>3. /\ sup'.wants = sup.wants /\ ~sup'.running /\ UNCHANGED <<stop, born>>
        /\ (sup'.delay => sup'.phase = "active")
    BY <1>1, <1>5, <2>2, StoppedEffect
  <2>4. AskedToStop'
    BY <1>2, <2>2, <2>3 DEF AskedToStop
  <2> QED BY <1>2, <1>3, <1>4, <2>1, <2>2, <2>3, <2>4, WholeAfter
<1>6. CASE Head(control).is = "autoPaste" /\ born = 0 /\ Reconcile(Head(control).on)
  <2> DEFINE b == Head(control).on
  <2>1. b \in BOOLEAN /\ Tells(control, 1)
    BY <1>3, <1>6, MessagesAre DEF Tells
  <2>2. b # sup.wants /\ Alternating(control', b, intent)
    BY <1>4, <2>1
  <2> HIDE DEF b
  <2>3. /\ sup'.wants = b /\ ~sup'.delay
        /\ \/ /\ ~b /\ sup'.phase = "inactive" /\ sup'.running = sup.running /\ born' = born
              /\ (sup.running => stop')
           \/ /\ b /\ sup'.phase = "untrusted" /\ sup'.running = sup.running
              /\ UNCHANGED <<stop, born>>
           \/ /\ b /\ sup'.phase = "active" /\ sup'.running
              /\ born' = IF sup.running THEN born ELSE born + 1
    BY <1>1, <1>6, <2>1, ReconcileEffect DEF b
  <2>4. CASE ~b /\ sup'.phase = "inactive" /\ sup'.running = sup.running /\ born' = born
             /\ (sup.running => stop')
    <3>1. AskedToStop'
      BY <1>1, <1>2, <1>6, <2>3, <2>4 DEF AskedToStop
    <3>2. /\ born' + live' <= 1 /\ (HoldsEnd(control') => born' + live' = 0)
          /\ (born' + live' > 0 \/ HoldsEnd(control') => sup'.running)
      BY <1>1, <1>2, <1>3, <2>4
    <3> QED BY <1>2, <1>3, <2>2, <2>3, <3>1, <3>2, WholeAfter
  <2>5. CASE b /\ sup'.phase = "untrusted" /\ sup'.running = sup.running /\ UNCHANGED <<stop, born>>
    <3>1. ~sup.wants
      BY <1>1, <2>1, <2>2, <2>5
    <3>2. live > 0 => stop
      BY <1>1, <3>1 DEF AskedToStop
    <3>3. AskedToStop'
      BY <1>1, <1>2, <1>6, <2>3, <2>5, <3>2 DEF AskedToStop
    <3>4. /\ born' + live' <= 1 /\ (HoldsEnd(control') => born' + live' = 0)
          /\ (born' + live' > 0 \/ HoldsEnd(control') => sup'.running)
      BY <1>1, <1>2, <1>3, <2>5
    <3> QED BY <1>2, <1>3, <2>2, <2>3, <3>3, <3>4, WholeAfter
  <2>6. CASE b /\ sup'.phase = "active" /\ sup'.running
             /\ born' = IF sup.running THEN born ELSE born + 1
    <3>1. AskedToStop'
      BY <2>3, <2>6 DEF AskedToStop
    <3>2. /\ born' + live' <= 1 /\ (HoldsEnd(control') => born' + live' = 0)
      BY <1>1, <1>2, <1>3, <2>6
    <3> QED BY <1>2, <1>3, <2>2, <2>3, <2>6, <3>1, <3>2, WholeAfter
  <2> QED BY <2>3, <2>4, <2>5, <2>6
<1> QED BY <1>5, <1>6 DEF Handle

LEMMA TimeoutWhole ==
  ASSUME Brisk, Whole, Stood', Timeout
  PROVE  Whole'
<1>1. /\ WatchTypeOK /\ born \in Nat /\ live \in Nat /\ born + live <= 1
      /\ Sole(control) /\ (Dying <=> HoldsEnd(control))
      /\ (born + live > 0 \/ Dying => sup.running)
      /\ Alternating(control, sup.wants, intent) /\ AskedToStop
      /\ (sup.delay => sup.wants /\ ~sup.running)
  BY WholeIs
<1>2. control = <<>> /\ UNCHANGED <<control, intent, live>> /\ born = 0 /\ (stop => live = 0)
  BY DEF Timeout, outside
<1>3. ~HoldsEnd(control') /\ Sole(control')
  BY <1>1, <1>2 DEF HoldsEnd
<1>4. /\ sup'.wants /\ sup.wants /\ ~sup'.delay /\ stop' = stop
      /\ \/ sup.delay /\ sup'.running /\ sup'.phase = sup.phase /\ born' = born + 1
         \/ ~sup.delay /\ sup.phase = "untrusted" /\ sup'.running /\ sup'.phase = "active"
            /\ born' = born + 1
         \/ ~sup.delay /\ sup.phase = "broken" /\ sup'.running = sup.running
            /\ sup'.phase = "untrusted" /\ born' = born
  BY <1>1, TimeoutEffect
<1>5. live = 0
  BY <1>1, <1>2, <1>4 DEF AskedToStop
<1>6. Alternating(control', sup'.wants, intent')
  <2>1. sup'.wants = sup.wants
    BY <1>4, SupervisorIs, <1>1 DEF Stood, WatchTypeOK, Supervisors
  <2> QED BY <1>1, <1>2, <2>1
<1>7. AskedToStop'
  BY <1>1, <1>2, <1>4, <1>5 DEF AskedToStop
<1>8. born' + live' <= 1 /\ (born' + live' > 0 => sup'.running)
  BY <1>2, <1>4, <1>5
<1> QED BY <1>3, <1>6, <1>7, <1>8, WholeAfter

LEMMA ThreadWhole ==
  ASSUME Whole, Stood', Listen \/ Exits
  PROVE  Whole'
<1>1. /\ control \in Seq(Messages) /\ {sup.wants, intent} \subseteq BOOLEAN
      /\ born \in Nat /\ live \in Nat /\ born + live <= 1
      /\ Sole(control) /\ (Dying <=> HoldsEnd(control)) /\ (Dying => born + live = 0)
      /\ (born + live > 0 \/ Dying => sup.running)
      /\ Alternating(control, sup.wants, intent) /\ AskedToStop
  BY WholeIs
<1>2. born + live = 1 /\ sup.running /\ ~HoldsEnd(control) /\ UNCHANGED <<sup, intent>>
  BY <1>1 DEF Listen, Exits, outside
<1>3. \/ control' = control /\ born' + live' = 1 /\ born > 0
      \/ TapStops /\ born' = 0 /\ live' = 0
  BY <1>1, <1>2 DEF Listen, Exits
<1>4. CASE control' = control /\ born' + live' = 1 /\ born > 0
  <2>1. AskedToStop'
    BY <1>1, <1>2, <1>4 DEF AskedToStop
  <2> QED BY <1>1, <1>2, <1>4, <2>1, WholeAfter
<1>5. CASE TapStops /\ born' = 0 /\ live' = 0
  <2> DEFINE m == [is |-> "tapStopped"]
  <2>1. m \in Messages /\ m.is = "tapStopped" /\ control' = Append(control, m)
    BY <1>5, MessageKinds DEF TapStops
  <2> HIDE DEF m
  <2>2. Sole(control') /\ Alternating(control', sup.wants, intent)
    BY <1>1, <1>2, <2>1, SoleGrows, AlternatingEnd
  <2>3. AskedToStop'
    BY <1>1, <1>2, <1>5 DEF AskedToStop
  <2> QED BY <1>2, <1>5, <2>2, <2>3, WholeAfter
<1> QED BY <1>3, <1>4, <1>5

LEMMA OutsideWhole ==
  ASSUME ~Repushes, Whole, Stood',
         \/ \E g \in {"absent", "healthy", "stale"} : Turn(g)
         \/ \E b \in BOOLEAN : Push(b)
         \/ WindowLapses \/ UNCHANGED watchVars
  PROVE  Whole'
<1>1. /\ WatchTypeOK /\ control \in Seq(Messages) /\ {sup.wants, intent} \subseteq BOOLEAN
      /\ born \in Nat /\ live \in Nat /\ born + live <= 1
      /\ Sole(control) /\ (Dying <=> HoldsEnd(control)) /\ (Dying => born + live = 0)
      /\ (born + live > 0 \/ Dying => sup.running)
      /\ Alternating(control, sup.wants, intent) /\ AskedToStop
  BY WholeIs
<1>2. CASE \E b \in BOOLEAN : Push(b)
  <2>1. PICK b \in BOOLEAN : Push(b)
    BY <1>2
  <2> DEFINE m == [is |-> "autoPaste", on |-> b]
  <2>2. /\ m \in Messages /\ m.is = "autoPaste" /\ m.on = b /\ control' = Append(control, m)
        /\ intent' = b /\ b # intent /\ UNCHANGED <<sup, stop, born, live>>
    BY <2>1, MessageKinds DEF Push, threads
  <2> HIDE DEF m
  <2>3. Sole(control') /\ Alternating(control', sup.wants, b)
    BY <1>1, <2>2, SoleGrows, AlternatingPush
  <2>4. HoldsEnd(control') => HoldsEnd(control)
    <3>1. Dying' <=> Dying
      BY <1>1, <2>2, SentDying
    <3>2. Dying' <=> HoldsEnd(control')
      BY EndsAfter DEF Stood, HoldsEnd, Tells
    <3> QED BY <1>1, <3>1, <3>2
  <2>5. AskedToStop'
    BY <1>1, <2>2 DEF AskedToStop
  <2> QED BY <1>1, <2>2, <2>3, <2>4, <2>5, WholeAfter
<1>3. CASE UNCHANGED <<intent, control, stop, born, live>>
           /\ sup'.wants = sup.wants /\ sup'.running = sup.running
           /\ sup'.delay = sup.delay /\ sup'.phase = sup.phase
  <2>1. AskedToStop'
    BY <1>1, <1>3 DEF AskedToStop
  <2> QED BY <1>1, <1>3, <2>1, WholeAfter
<1>4. CASE WindowLapses
  BY <1>1, <1>3, <1>4, LapseEffect DEF WindowLapses, outside, threads
<1> QED BY <1>2, <1>3, <1>4 DEF Turn, threads, watchVars, outside

LEMMA WholeInit == WatchInit => Whole
<1> SUFFICES ASSUME WatchInit PROVE Whole
  OBVIOUS
<1>1. /\ sup = Dormant /\ control = <<>> /\ born = 0 /\ live = 0 /\ intent = FALSE
      /\ sup.wants = FALSE /\ sup.phase = "inactive" /\ ~sup.delay
  BY DEF WatchInit, Dormant
<1>2. Alternating(control, sup.wants, intent)
  <2>1. DOMAIN control = {}
    BY <1>1
  <2>2. intent = sup.wants
    BY <1>1, Zenon
  <2> QED BY <2>1, <2>2, Zenon DEF Alternating
<1>3. OneWatcher /\ AskedToStop
  BY <1>1 DEF OneWatcher, OneTap, Dying, AskedToStop
<1> QED BY <1>2, <1>3, StoodInit DEF Whole

LEMMA WholeNext ==
  ASSUME Brisk, ~Repushes
  PROVE  Whole /\ [WatchNext]_watchVars => Whole'
<1> SUFFICES ASSUME Whole, [WatchNext]_watchVars PROVE Whole'
  OBVIOUS
<1>1. Stood'
  BY StoodNext DEF Whole
<1> QED BY <1>1, HandleWhole, TimeoutWhole, ThreadWhole, OutsideWhole DEF WatchNext

LEMMA WholeMeans ==
  ASSUME Whole
  PROVE  OneTap /\ NoTapUnasked
<1>1. OneTap
  BY DEF Whole, OneWatcher
<1>2. NoTapUnasked
  <2> SUFFICES ASSUME ~sup.wants, ~stop PROVE born + live = 0
    BY DEF NoTapUnasked
  <2>1. born \in Nat /\ live \in Nat
    BY WholeIs
  <2>2. born = 0 /\ ~(live > 0)
    BY DEF Whole, AskedToStop
  <2> QED BY <2>1, <2>2
<1> QED BY <1>1, <1>2

\* event.rs:29-30 `active` stands for a tap that runs, that starts or whose end is on its way, or
\* for a restart that is due: whatever the page pushes, and however late the threads are.
THEOREM ActiveStandsForTap == WatchSpec => []ActiveIsWatched
<1>1. Stood => ActiveIsWatched
  BY DEF Stood, StandsForTap, ActiveIsWatched, capability
<1> QED BY <1>1, StoodInit, StoodNext, PTL DEF WatchSpec

\* mod.rs:145-147, supervisor.rs:75-77 and event.rs:23-25 one tap at a time, and none that nobody
\* wants: if threads start and stop within a wait, and no page repeats its intent.
THEOREM TapsAreSound ==
  ASSUME Brisk, ~Repushes
  PROVE  WatchSpec => [](OneTap /\ NoTapUnasked)
<1>1. Whole => OneTap /\ NoTapUnasked
  BY WholeMeans
<1>2. Whole /\ [WatchNext]_watchVars => Whole'
  BY WholeNext
<1> QED BY <1>1, <1>2, WholeInit, PTL DEF WatchSpec

\* The watch goes on beside the deliveries, undisturbed by them.
LEMMA WatchGoesOn == (Init => WatchInit) /\ ([Next]_vars => [WatchNext]_watchVars)
<1>1. Init => WatchInit
  BY DEF Init
<1>2. ASSUME NEW d \in Deliveries, Writing(d) \/ Restoring(d)
      PROVE  UNCHANGED watchVars
  BY <1>2 DEF Writing, Restoring, WriteToStay, EndBorrow, Decide, Captures, Write, Take, Paste,
              Return, Wake, Check, Stamp, besideVars
<1>3. ASSUME NEW d \in Deliveries, NEW keep, NEW word, NEW observe, Begin(d, keep, word, observe)
      PROVE  UNCHANGED watchVars
  BY <1>3 DEF Begin
<1>4. ASSUME NEW what \in Copied, Copy(what)
      PROVE  UNCHANGED watchVars
  BY <1>4 DEF Copy, besideVars
<1>5. [Next]_vars => WatchNext \/ UNCHANGED watchVars
  BY <1>2, <1>3, <1>4 DEF Next, Beside, vars, besideVars
<1> QED BY <1>1, <1>5

\* delivery.rs:122-139 a transcript is pasted on macOS only while the capability is active, and
\* beside whatever deliveries and readings of fields that still stands for a tap.
THEOREM PastingIsWatched == Spec => []ActiveIsWatched
<1>1. Stood => ActiveIsWatched
  BY DEF Stood, StandsForTap, ActiveIsWatched, capability
<1> QED BY <1>1, WatchGoesOn, StoodInit, StoodNext, PTL DEF Spec
=============================================================================
