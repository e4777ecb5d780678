-------------------------- MODULE ManualRecorder --------------------------
(***************************************************************************)
(* One page's manual recorder and the operations over it:                  *)
(* apps/tironian/src/lib/state/manual-recorder.svelte.ts, the manual half   *)
(* of operations/recording.ts, and operations/capture-queue.ts.            *)
(*                                                                         *)
(* JavaScript is single-threaded: a step runs from one macrotask's start to *)
(* where its asynchronous calls park.  Every operation of the recorder      *)
(* begins by awaiting the bootstrap; `waiting` holds those continuations in *)
(* order.  Once the page is booted they are microtasks, and nothing else    *)
(* runs before them (Settled).                                             *)
(*                                                                         *)
(* A recording is named by the start that began it; 0 is one that outlived  *)
(* a reload.                                                               *)
(***************************************************************************)
EXTENDS Naturals, Sequences, SequencesExt

CONSTANTS
    None,
    MaxStarts,      \* bound: calls of startManualRecording
    Gate,           \* whether secureFieldCaptureGateEnabled is set
    Impatient       \* whether a person starts and ends without waiting for answers

ASSUME NoneAssumption == None \notin Nat
ASSUME StartsAssumption == MaxStarts \in Nat
ASSUME SettingsAssumption == {Gate, Impatient} \subseteq BOOLEAN

Starts == 1 .. MaxStarts
Recordings == 0 .. MaxStarts

VARIABLES
    current,        \* _current
    starting,       \* _starting
    boot,           \* bootstrapped: not asked, asking, or answered
    waiting,        \* continuations of ensureBootstrapped(), in order
    phase,          \* how far each start is
    ending,         \* how far the end of each recording is
    open,           \* the recording in the host's slot
    pending,        \* the capture queue: the starts whose snapshot waits
    runs,           \* history: which recording ran with whose snapshot
    started         \* starts so far

recorder == <<current, starting, boot, waiting, phase, ending, open, pending, runs, started>>

Init ==
    /\ current = None /\ starting = FALSE /\ boot = "no" /\ waiting = <<>>
    /\ phase = [s \in Starts |-> "none"] /\ ending = [r \in Recordings |-> "no"]
    /\ open \in {None, 0} /\ pending = <<>> /\ runs = {} /\ started = 0

Stop(r) == [op |-> "stop", of |-> r]
Cancel == [op |-> "cancel", of |-> None]
Start(s) == [op |-> "start", of |-> s]

Settled == boot = "yes" => waiting = <<>>
Live == current # None \/ starting
EndingsOut == \E r \in Recordings : ending[r] \in {"stopping", "cancelling"}
Patient ==
    \/ Impatient
    \/ ~EndingsOut /\ Cancel \notin ToSet(waiting) /\ \A s \in Starts : phase[s] # "gate"

Oldest(queue) == IF queue = <<>> THEN None ELSE Head(queue)
WithoutOldest(queue) == IF queue = <<>> THEN queue ELSE Tail(queue)

\* The first call of ensureBootstrapped() asks the host.
Await(queue) ==
    /\ waiting' = queue
    /\ boot' = IF boot = "no" /\ queue # <<>> THEN "asking" ELSE boot

------------------------------------------------------------------------
(* startManualRecording *)

\* Past the gate, in one go: the snapshot is queued and the recorder asked; a live
\* or starting recorder refuses, and nothing is queued.
Request(s, queue) ==
    /\ phase' = [phase EXCEPT ![s] = IF Live THEN "refused" ELSE "waiting"]
    /\ starting' = (starting \/ ~Live)
    /\ pending' = IF Live THEN pending ELSE Append(pending, s)
    /\ Await(IF Live THEN queue ELSE Append(queue, Start(s)))
    /\ UNCHANGED <<current, ending, open, runs>>

\* startManualRecording() as far as its first await: the probe of the focused field.
Called(s, queue) ==
    /\ s = started + 1 /\ s \in Starts /\ Patient
    /\ started' = s
    /\ IF Gate
       THEN /\ phase' = [phase EXCEPT ![s] = "gate"]
            /\ Await(queue)
            /\ UNCHANGED <<current, starting, ending, open, pending, runs>>
       ELSE Request(s, queue)

GatePasses(s, queue) == phase[s] = "gate" /\ Request(s, queue) /\ UNCHANGED started

\* A password field has the focus.
GateRefuses(s) ==
    /\ phase[s] = "gate"
    /\ phase' = [phase EXCEPT ![s] = "withheld"]
    /\ UNCHANGED <<current, starting, boot, waiting, ending, open, pending, runs, started>>

\* startRecording() answers with an error: the start takes its own snapshot away.
Fails(s, verdict) ==
    /\ phase' = [phase EXCEPT ![s] = verdict]
    /\ starting' = FALSE
    /\ pending' = RemoveFirst(pending, s)
    /\ UNCHANGED <<current, ending, open, runs, started>>

HostRefuses(s) ==
    /\ phase[s] = "opening"
    /\ Fails(s, "failed")
    /\ UNCHANGED <<boot, waiting>>

HostOpens(s, queue) ==
    /\ phase[s] = "opening" /\ open = None
    /\ phase' = [phase EXCEPT ![s] = "recording"]
    /\ open' = s /\ current' = s /\ starting' = FALSE
    /\ Await(queue)
    /\ UNCHANGED <<ending, pending, runs, started>>

------------------------------------------------------------------------
(* The bootstrap, and what waits for it *)

\* Mistaken: the recording the host still has is not taken up.
BootAnswersForgetting ==
    /\ boot = "asking"
    /\ boot' = "yes"
    /\ UNCHANGED <<current, starting, waiting, phase, ending, open, pending, runs, started>>

BootAnswers ==
    /\ boot = "asking"
    /\ boot' = "yes"
    /\ current' = IF open = 0 THEN 0 ELSE current
    /\ UNCHANGED <<starting, waiting, phase, ending, open, pending, runs, started>>

\* The host could not be asked: what waits fails, and the next call asks again.
BootFails ==
    /\ boot = "asking"
    /\ boot' = "no" /\ waiting' = <<>>
    /\ \/ \E s \in Starts : Start(s) \in ToSet(waiting) /\ Fails(s, "failed")
       \/ /\ \A s \in Starts : Start(s) \notin ToSet(waiting)
          /\ UNCHANGED <<current, starting, phase, ending, open, pending, runs, started>>

Resuming(op) == boot = "yes" /\ waiting # <<>> /\ Head(waiting).op = op
Resumed == waiting' = Tail(waiting) /\ UNCHANGED boot

ResumeStart ==
    /\ Resuming("start")
    /\ LET s == Head(waiting).of
       IN  IF current # None THEN Fails(s, "refused")
           ELSE /\ phase' = [phase EXCEPT ![s] = "opening"]
                /\ UNCHANGED <<current, starting, ending, open, pending, runs, started>>
    /\ Resumed

\* release(), before the host is asked.
Release(how) ==
    /\ ending' = [ending EXCEPT ![current] = how]
    /\ current' = None
    /\ UNCHANGED <<starting, phase, open, pending, runs, started>>

\* stopRecording() of nothing is an error, and its caller drops a snapshot.
ResumeStop ==
    /\ Resuming("stop")
    /\ IF current # None THEN Release("stopping")
       ELSE /\ pending' = WithoutOldest(pending)
            /\ UNCHANGED <<current, starting, phase, ending, open, runs, started>>
    /\ Resumed

ResumeCancel ==
    /\ Resuming("cancel")
    /\ IF current # None THEN Release("cancelling")
       ELSE UNCHANGED <<current, starting, phase, ending, open, pending, runs, started>>
    /\ Resumed

------------------------------------------------------------------------
(* The end of a recording: the host takes it out of its slot, and answers *)

HostTakes(r) ==
    /\ ending[r] \in {"stopping", "cancelling"} /\ open = r
    /\ open' = None
    /\ UNCHANGED <<current, starting, boot, waiting, phase, ending, pending, runs, started>>

Answered(r, how) ==
    /\ ending[r] = how /\ open # r
    /\ ending' = [ending EXCEPT ![r] = "over"]
    /\ UNCHANGED <<current, starting, boot, waiting, phase, open, started>>

\* The audio goes to the pipeline with the oldest snapshot.
Stopped(r) ==
    /\ Answered(r, "stopping")
    /\ runs' = runs \cup {<<r, Oldest(pending)>>}
    /\ pending' = WithoutOldest(pending)

StopFailed(r) ==
    /\ Answered(r, "stopping")
    /\ pending' = WithoutOldest(pending)
    /\ UNCHANGED runs

Cancelled(r) ==
    /\ Answered(r, "cancelling")
    /\ pending' = WithoutOldest(pending)
    /\ UNCHANGED runs

------------------------------------------------------------------------
(* What a person, or the end of a capture, asks *)

ToggleStarts(s) == Settled /\ current = None /\ Called(s, waiting)

Ask(op) ==
    /\ Settled /\ Await(Append(waiting, op))
    /\ UNCHANGED <<current, starting, phase, ending, open, pending, runs, started>>

\* The toggle, the surface switch, the push-to-talk stop, and a capture that ended on
\* its own: each looks whether a recording is held.
AskStop == Patient /\ current # None /\ Ask(Stop(current))

AskCancel == Patient /\ Cancel \notin ToSet(waiting) /\ Ask(Cancel)

------------------------------------------------------------------------
Resume == ResumeStart \/ ResumeStop \/ ResumeCancel
Host(r) == HostTakes(r) \/ Stopped(r) \/ StopFailed(r) \/ Cancelled(r)
Gated(s) == Settled /\ (GatePasses(s, waiting) \/ GateRefuses(s))
Opening(s) == Settled /\ (HostOpens(s, waiting) \/ HostRefuses(s))

------------------------------------------------------------------------
(* Properties. *)

Phases == {"none", "gate", "withheld", "waiting", "opening", "recording", "refused", "failed"}

RecorderTypeOK ==
    /\ current \in {None} \cup Recordings /\ starting \in BOOLEAN
    /\ boot \in {"no", "asking", "yes"} /\ (boot = "no" => waiting = <<>>)
    /\ phase \in [Starts -> Phases]
    /\ ending \in [Recordings -> {"no", "stopping", "cancelling", "over"}]
    /\ open \in {None} \cup Recordings /\ started \in 0 .. MaxStarts
    /\ starting <=> \E s \in Starts : phase[s] \in {"waiting", "opening"}

\* manual-recorder.svelte.ts:85-88 what the host records is held by the page, or the
\* page has asked for its end, or has yet to hear what the host has.
NoOrphan ==
    open # None => \/ current = open
                   \/ ending[open] \in {"stopping", "cancelling"}
                   \/ boot # "yes" /\ open = 0

------------------------------------------------------------------------
(* Why they hold. *)

Ops == {Stop(r) : r \in Recordings} \cup {Cancel} \cup {Start(s) : s \in Starts}

\* Until the host is asked the page holds nothing, and ends nothing.
BootedFirst ==
    boot # "yes" =>
        /\ current = None /\ open \in {None, 0}
        /\ \A r \in Recordings : ending[r] = "no"
        /\ \A s \in Starts : phase[s] \notin {"opening", "recording"}

\* One start at a time is past its gate, and it waits once.
Starter(s) == phase[s] \in {"waiting", "opening"}
Awaits(queue, s) == \E i \in DOMAIN queue : queue[i] = Start(s)
StartsOnce(queue) ==
    \A i, j \in DOMAIN queue : queue[i].op = "start" /\ queue[j].op = "start" => i = j
OneStart ==
    /\ \A s, t \in Starts : Starter(s) /\ Starter(t) => s = t
    /\ \A s \in Starts : phase[s] = "waiting" <=> Awaits(waiting, s)
    /\ StartsOnce(waiting)
    /\ \A s \in Starts : phase[s] = "opening" => current = None
    /\ \A s \in Starts : s > started => phase[s] = "none"

\* What is held, or ending, was opened; what was opened is held until its end is asked.
HeldOnce ==
    /\ \A s \in Starts : ending[s] # "no" => phase[s] = "recording"
    /\ \A s \in Starts : current = s <=> phase[s] = "recording" /\ ending[s] = "no"
    /\ \A s \in Starts : open = s => phase[s] = "recording"
    /\ current = 0 => ending[0] = "no"

RecorderInv ==
    /\ RecorderTypeOK /\ waiting \in Seq(Ops)
    /\ BootedFirst /\ OneStart /\ HeldOnce /\ NoOrphan
===========================================================================
