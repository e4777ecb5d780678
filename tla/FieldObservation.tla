------------------------- MODULE FieldObservation -------------------------
(***************************************************************************)
(* Learning from corrections (ADR-0271), on Windows: the one target the     *)
(* host may read around (field_text.rs), the page's one open observation,   *)
(* which reads it on timers and when the next dictation starts (observer.ts) *)
(* and the terms it learns (rules.ts, learned-terms.svelte.ts).             *)
(*                                                                         *)
(* A delivery names itself, the generation of its target and the            *)
(* observation the page opens for it.  What a person left in the field is   *)
(* chosen at every read: the set of terms it would teach.                   *)
(***************************************************************************)
EXTENDS Naturals, FiniteSets

CONSTANTS
    Deliveries,         \* the calls of write_text()
    Terms,              \* what a correction may teach
    MaxRows,            \* LIMITS.maxLearnedRows
    MaxTerms,           \* LIMITS.maxTermsPerObservation
    ReadBudget,         \* READ_BUDGET
    MaxStrays,          \* bound: reads the page gave up on that the host has not ended
    Timely              \* whether a read, or the reply of a paste, never outlasts the time between
                        \* two timers: READ_TIMEOUT_MS is below OBSERVATION_SCHEDULE's steps

ASSUME DeliveriesAssumption == Deliveries \subseteq Nat \ {0}
ASSUME ObservationBoundsAssumption == {MaxRows, MaxTerms, ReadBudget, MaxStrays} \subseteq Nat
ASSUME TimelyAssumption == Timely \in BOOLEAN

VARIABLES
    newest,         \* DELIVERIES: the last delivery that began
    target,         \* TARGET
    endings,        \* the calls of end_field_observation() on their way
    current,        \* the page's open observation
    tasks,          \* what awaits a read or a hash
    landed,         \* the replies of observed pastes on their way to the page
    rows            \* the learned terms, and the lessons each was learned from

observationVars == <<newest, target, endings, current, tasks, landed, rows>>

NoTarget == [of |-> 0, left |-> 0, anchors |-> 0]
Closed == [of |-> 0, generation |-> 0, baselined |-> FALSE, busy |-> FALSE,
           last |-> {}, timers |-> {}]

\* In the order they fire.  The next dictation's check is no timer.
Due == [baseline |-> 1, retry |-> 2, first |-> 3, second |-> 4, final |-> 5]
LastChance == {"final", "next"}

ObservationInit ==
    /\ newest = 0 /\ target = NoTarget /\ endings = {}
    /\ current = Closed /\ tasks = {}
    /\ landed = [d \in Deliveries |-> "no"]
    /\ rows = [c \in Terms |-> [is |-> "none", lessons |-> {}]]

------------------------------------------------------------------------
(* The host's target *)

BeginDelivery(d) == newest' = d /\ target' = NoTarget

Armed(d) == IF newest = d THEN [of |-> d, left |-> ReadBudget, anchors |-> 0] ELSE target

\* What the page awaits of its own reads.
Awaited == {t \in tasks : t.awaited /\ t.of = current.of /\ t.by # "next"}

\* The element's capture may fail or be late; the page counts on it either way.
FinishCapture(d) ==
    /\ target' \in {target, Armed(d)}
    /\ landed' = [landed EXCEPT ![d] = IF Awaited = {} THEN "landed" ELSE "late"]

EndArrives(g) ==
    /\ g \in endings /\ endings' = endings \ {g}
    /\ target' = IF g = target.of THEN NoTarget ELSE target
    /\ UNCHANGED <<newest, current, tasks, landed, rows>>

KeepAnchors(t) ==
    target' = IF t.generation = target.of /\ target.anchors = 0
              THEN [target EXCEPT !.anchors = t.generation] ELSE target

------------------------------------------------------------------------
(* The page's observation *)

Close(o) == current' = Closed /\ endings' = endings \cup ({o.generation} \ {0})
Stays(o) == current' = o /\ UNCHANGED endings

Asks(o, by) ==
    /\ Stays(o)
    /\ tasks' = tasks \cup {[of |-> o.of, by |-> by, at |-> "asked", awaited |-> TRUE,
                             generation |-> 0, anchors |-> 0, key |-> {}, reads |-> {}]}

\* check(), until it awaits its read.
Checks(o, by) ==
    \/ o.busy /\ by \in LastChance /\ Close(o) /\ UNCHANGED tasks
    \/ o.busy /\ by \notin LastChance /\ Stays(o) /\ UNCHANGED tasks
    \/ ~o.busy /\ Close(o) /\ UNCHANGED tasks        \* not baselined, or the setting is off
    \/ ~o.busy /\ o.baselined /\ Asks([o EXCEPT !.busy = TRUE], by)

Fire(by) ==
    /\ by \in current.timers /\ \A other \in current.timers : Due[by] <= Due[other]
    /\ Timely => Awaited = {} /\ \A d \in Deliveries : landed[d] # "late"
    /\ landed' = [d \in Deliveries |-> IF landed[d] = "landed" THEN "late" ELSE landed[d]]
    /\ LET o == [current EXCEPT !.timers = @ \ {by}]
       IN  \/ by \in {"baseline", "retry"} /\ Asks(o, by)
           \/ by \in {"baseline", "retry"} /\ Close(o) /\ UNCHANGED tasks   \* the setting is off
           \/ by \notin {"baseline", "retry"} /\ Checks(o, by)
    /\ UNCHANGED <<newest, target, rows>>

DictationStarts ==
    /\ current # Closed /\ Checks(current, "next")
    /\ UNCHANGED <<newest, target, landed, rows>>

\* ours(): the first read that names a target names the observation's.
Named(a) == [current EXCEPT !.generation = IF @ = 0 THEN a.generation ELSE @]
\* Mistaken: a read that spent a newer target is taken for the observation's.
OursWhatever(a) == a.generation \in {0} \cup Deliveries
Ours(a) == a.generation \in {0, Named(a).generation}

Unavailable(g) == [is |-> "unavailable", generation |-> g, key |-> {}, about |-> 0]

BaselineResumes(t, a) ==
    \/ ~Ours(a) /\ Close(Named(a))
    \/ Ours(a) /\ a.is = "span" /\ Stays([Named(a) EXCEPT !.baselined = TRUE])
    \/ Ours(a) /\ a.is # "span" /\ t.by = "retry" /\ Close(Named(a))
    \/ Ours(a) /\ a.is # "span" /\ t.by # "retry"
          /\ Stays([Named(a) EXCEPT !.timers = @ \cup {"retry"}])

\* A text that is gone or rewritten closes as a refusal does.
CheckResumes(t, a, rest) ==
    LET o == [Named(a) EXCEPT !.busy = FALSE]
        same == {read \in o.last : read.key = a.key}
    IN  \/ (~Ours(a) \/ a.is # "span") /\ Close(o) /\ tasks' = rest
        \/ /\ Ours(a) /\ a.is = "span" /\ same # {} /\ a.key # {}
           /\ Stays(o)
           /\ tasks' = rest \cup {[t EXCEPT !.at = "hashing", !.key = a.key, !.reads =
                                      {a.about} \cup {read.about : read \in same}]}
        \/ /\ Ours(a) /\ a.is = "span" /\ (same = {} \/ a.key = {}) /\ tasks' = rest
           /\ IF t.by \in LastChance THEN Close(o)
              ELSE Stays([o EXCEPT !.last = {[key |-> a.key, about |-> a.about]}])

\* What an answered read leaves: the host's own side of it is in `rest`.
Resume(t, a, rest) ==
    \/ ~(t.awaited /\ t.of = current.of) /\ tasks' = rest /\ UNCHANGED <<current, endings>>
    \/ /\ t.awaited /\ t.of = current.of
       /\ IF t.by \in {"baseline", "retry"} THEN BaselineResumes(t, a) /\ tasks' = rest
                                            ELSE CheckResumes(t, a, rest)

------------------------------------------------------------------------
(* A read: taken from whichever target there is, and answered when the field is *)

TakeRead(t) ==
    /\ t \in tasks /\ t.at = "asked"
    /\ \/ /\ target.left > 0
          /\ target' = [target EXCEPT !.left = @ - 1]
          /\ tasks' = (tasks \ {t}) \cup {[t EXCEPT !.at = "taken", !.generation = target.of,
                                                   !.anchors = target.anchors]}
          /\ UNCHANGED <<current, endings>>
       \/ target' = NoTarget /\ Resume(t, Unavailable(0), tasks \ {t})  \* none, spent or too late
    /\ UNCHANGED <<newest, landed, rows>>

\* The first read finds what was delivered, a later one what is between the anchors.
Answers(t) ==
    /\ t \in tasks /\ t.at = "taken"
    /\ \/ Resume(t, Unavailable(t.generation), tasks \ {t}) /\ UNCHANGED target
       \/ /\ KeepAnchors(t)
          /\ \E key \in IF t.anchors = 0 THEN {{}} ELSE SUBSET Terms :
                Resume(t, [is |-> "span", generation |-> t.generation, key |-> key,
                           about |-> IF t.anchors = 0 THEN t.generation ELSE t.anchors],
                       tasks \ {t})
    /\ UNCHANGED <<newest, landed, rows>>

\* READ_TIMEOUT_MS is over; the host still reads.
GiveUp(t) ==
    /\ t \in tasks /\ t.at \in {"asked", "taken"} /\ t.awaited /\ t.of = current.of
    /\ Cardinality({s \in tasks : ~s.awaited}) < MaxStrays
    /\ Resume(t, Unavailable(0), (tasks \ {t}) \cup {[t EXCEPT !.awaited = FALSE, !.of = 0, !.by = "nobody"]})
    /\ UNCHANGED <<newest, target, landed, rows>>

------------------------------------------------------------------------
(* What is learned *)

RowCount == Cardinality({c \in Terms : rows[c].is \in {"pending", "active", "accepted"}})

\* decideLearning(), of the candidates neither the Dictionary nor a change of mind rules out.
Decided(candidates) ==
    LET fresh == {c \in candidates : rows[c].is \in {"none", "pending"}}
        promote == {c \in fresh : rows[c].is = "pending"}
    IN  IF RowCount >= MaxRows \/ Cardinality(fresh) > MaxTerms THEN {}
        ELSE IF RowCount + Cardinality(fresh \ promote) > MaxRows THEN promote
        ELSE fresh

Learn(t, terms) ==
    rows' = [c \in Terms |->
        IF c \notin terms THEN rows[c]
        ELSE [is |-> IF rows[c].is = "pending" THEN "active" ELSE "pending",
              lessons |-> rows[c].lessons \cup {[of |-> t.of, reads |-> t.reads]}]]

\* Or the hash fails, and nothing is learned.
Hashed(t) ==
    /\ t \in tasks /\ t.at = "hashing" /\ tasks' = tasks \ {t}
    /\ \/ t.of # current.of /\ UNCHANGED <<current, endings, rows>>
       \/ t.of = current.of /\ Close(current) /\ UNCHANGED rows
       \/ /\ t.of = current.of /\ Close(current)
          /\ \E held \in SUBSET t.key : Learn(t, Decided(t.key \ held))
    /\ UNCHANGED <<newest, target, landed>>

\* The person accepts a pending term, or forgets one for good.
Settles(c, how) ==
    /\ rows[c].is \in IF how = "accepted" THEN {"pending"} ELSE {"pending", "active", "accepted"}
    /\ rows' = [rows EXCEPT ![c] = [is |-> how, lessons |-> {}]]
    /\ UNCHANGED <<newest, target, endings, current, tasks, landed>>

------------------------------------------------------------------------
(* What happens around an observation *)

\* afterDelivery() of a clean paste; with the setting off by now, nothing opens.
Opens(d) ==
    /\ landed[d] # "no" /\ landed' = [landed EXCEPT ![d] = "no"]
    /\ current' \in {Closed, [Closed EXCEPT !.of = d,
                              !.timers = {"baseline", "first", "second", "final"}]}
    /\ UNCHANGED <<newest, target, endings, tasks, rows>>

\* An Enter followed the paste, before the page hears of it.
Enters(d) ==
    /\ landed[d] # "no" /\ landed' = [landed EXCEPT ![d] = "no"]
    /\ target' = NoTarget /\ Close(current)
    /\ UNCHANGED <<newest, tasks, rows>>

\* Another delivery that is not observed, a repeat, another app.
Cancel ==
    /\ current # Closed /\ Close(current)
    /\ UNCHANGED <<newest, target, tasks, landed, rows>>

\* A voice command that submits or undoes, with the keystroke that follows.
Command ==
    /\ target # NoTarget /\ target' = NoTarget /\ Close(current)
    /\ UNCHANGED <<newest, tasks, landed, rows>>

Observes ==
    \/ \E by \in DOMAIN Due : Fire(by)
    \/ \E t \in tasks : TakeRead(t) \/ Answers(t) \/ Hashed(t)
    \/ \E d \in Deliveries : Opens(d) \/ Enters(d)

ObservationNext ==
    \/ Observes
    \/ \E t \in tasks : GiveUp(t)
    \/ \E g \in endings : EndArrives(g)
    \/ DictationStarts \/ Cancel \/ Command
    \/ \E c \in Terms, how \in {"accepted", "forgotten"} : Settles(c, how)

------------------------------------------------------------------------
(* Properties. *)

\* A delivery, or none.
Name == Deliveries \cup {0}
Timer == {"baseline", "retry", "first", "second", "final"}
Observation == [of : Name, generation : Name, baselined : BOOLEAN, busy : BOOLEAN,
                last : SUBSET [key : SUBSET Terms, about : Name], timers : SUBSET Timer]
Task == [of : Name, by : Timer \cup {"next", "nobody"}, at : {"asked", "taken", "hashing"},
         awaited : BOOLEAN, generation : Name, anchors : Name, key : SUBSET Terms,
         reads : SUBSET Name]
Row == [is : {"none", "pending", "active", "accepted", "forgotten"},
        lessons : SUBSET [of : Name, reads : SUBSET Name]]

ObservationTypeOK ==
    /\ newest \in Name /\ target \in [of : Name, left : 0 .. ReadBudget, anchors : Name]
    /\ endings \subseteq Deliveries /\ current \in Observation /\ tasks \subseteq Task
    /\ landed \in [Deliveries -> {"no", "landed", "late"}]
    /\ rows \in [Terms -> Row]

\* rules.ts:25-26 the learned terms stay within their limit.
RowsAreBounded == RowCount <= MaxRows

\* observer.ts:76-85, rules.ts:153-157 a term is learned from two agreeing reads around the
\* very paste that is observed, and becomes active by itself only when a later dictation
\* repeats it: however late, lost or overlapping the reads are.
LessonsAreSound ==
    \A c \in Terms :
        /\ \A lesson \in rows[c].lessons : lesson.reads = {lesson.of}
        /\ rows[c].is = "active" => Cardinality({lesson.of : lesson \in rows[c].lessons}) > 1

\* observer.ts:81-84 closing an observation ends its own target, never that of a paste
\* whose observation is still to open.
EndsItsOwn == \A d \in Deliveries : landed[d] # "no" => d \notin endings
===========================================================================
