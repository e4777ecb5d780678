----------------------------- MODULE Captures -----------------------------
(***************************************************************************)
(* The captures of one page together: the manual recorder of                *)
(* ManualRecorder, the voice-activated one (packages/recorder's              *)
(* vad-recorder.ts, state/vad-recorder.svelte.ts and the half of              *)
(* operations/recording.ts over it), the queue of snapshots both share, and  *)
(* the playback both pause (operations/media.ts).                           *)
(*                                                                         *)
(* vad-web is outside the repository.  As the code uses it, an utterance    *)
(* begins, then ends or misfires, one at a time; destroying it ends the one *)
(* in progress first (submitUserSpeechOnPause) and no other begins.         *)
(***************************************************************************)
EXTENDS ManualRecorder

CONSTANTS
    MaxSessions,    \* bound: sessions armed
    MaxUtterances,  \* bound: utterances over all of them
    Overlap,        \* whether one capture is started before the other is over
    PlaybackLag     \* bound: calls of the media chain that wait

ASSUME BoundsAssumption == {MaxSessions, MaxUtterances, PlaybackLag} \subseteq Nat
ASSUME OverlapAssumption == Overlap \in BOOLEAN

Sessions == 1 .. MaxSessions
Utterances == MaxStarts + 1 .. MaxStarts + MaxUtterances

VARIABLES
    vadSession, \* _session
    stage,      \* how far each session is
    listening,  \* _state of the reactive wrapper
    stops,      \* the stops that are out, of each session
    mic,        \* the sessions whose stream is held
    speech,     \* the utterance in progress
    spoken,     \* utterances so far
    timer,      \* whether vadResumeTimer is set
    chain,      \* what waits on the media chain
    paused      \* whether the chain's last answer holds paused players

activation == <<vadSession, stage, listening, stops, mic, speech, spoken>>
playback == <<timer, chain, paused>>

CapturesInit ==
    /\ Init
    /\ vadSession = None /\ stage = [v \in Sessions |-> "none"] /\ listening = "idle"
    /\ stops = [v \in Sessions |-> 0] /\ mic = {} /\ speech = None /\ spoken = 0
    /\ timer = FALSE /\ chain = <<>> /\ paused = FALSE

\* _starting: set from the call to its last answer.
Arming == \E v \in Sessions : stage[v] \in {"asking", "loading", "starting"}
Armed == vadSession # None \/ Arming
Stopping == \E v \in Sessions : stops[v] > 0
AloneOr(others) == Overlap \/ ~others
Recording == Live \/ EndingsOut \/ open # None \/ waiting # <<>> \/ \E s \in Starts : phase[s] = "gate"

------------------------------------------------------------------------
(* The playback: what pauses and resumes it waits in one chain *)

Queues(calls) ==
    /\ chain' = chain \o calls
    /\ UNCHANGED paused

\* Pausing keeps what is already paused; resuming forgets it.  A pause may find nothing
\* playing.
PlaybackTurns ==
    /\ chain # <<>>
    /\ chain' = Tail(chain)
    /\ paused' \in IF Head(chain) = "resume" THEN {FALSE} ELSE {TRUE, paused}
    /\ UNCHANGED <<recorder, activation, timer>>

\* scheduleResumeAfterSpeech and its timer.
ResumeComesDue ==
    /\ timer
    /\ timer' = FALSE
    /\ Queues(<<"resume">>)
    /\ UNCHANGED <<recorder, activation>>

\* resumePlaybackForVadEnd
ResumesNow == timer' = FALSE /\ Queues(<<"resume">>)

------------------------------------------------------------------------
(* startVadRecording *)

\* Mistaken: nothing closes the window before the session is there.
ArmTwice(v) ==
    /\ listening = "idle" /\ Settled /\ AloneOr(Recording)
    /\ stage[v] = "none" /\ \A w \in 1 .. v - 1 : stage[w] # "none"
    /\ stage' = [stage EXCEPT ![v] = IF vadSession # None THEN "over" ELSE "asking"]
    /\ IF vadSession # None THEN ResumesNow ELSE UNCHANGED playback
    /\ UNCHANGED <<recorder, vadSession, listening, stops, mic, speech, spoken>>

\* The toggle while nothing listens.  A second start is refused, and restores the
\* playback as any failed start.
Arm(v) ==
    /\ listening = "idle" /\ Settled /\ AloneOr(Recording)
    /\ stage[v] = "none" /\ \A w \in 1 .. v - 1 : stage[w] # "none"
    /\ stage' = [stage EXCEPT ![v] = IF Armed THEN "over" ELSE "asking"]
    /\ IF Armed THEN ResumesNow ELSE UNCHANGED playback
    /\ UNCHANGED <<recorder, vadSession, listening, stops, mic, speech, spoken>>

Advance(v, from, to) ==
    /\ stage[v] = from /\ stage' = [stage EXCEPT ![v] = to]
    /\ UNCHANGED <<recorder, stops, speech, spoken>>

StreamOpens(v) ==
    /\ Advance(v, "asking", "loading")
    /\ mic' = mic \cup {v}
    /\ UNCHANGED <<vadSession, listening, playback>>

ModelLoads(v) == Advance(v, "loading", "starting") /\ UNCHANGED <<vadSession, listening, mic, playback>>

SessionStarts(v) ==
    /\ Advance(v, "starting", "live")
    /\ vadSession' = v
    /\ listening' = "listening"
    /\ UNCHANGED <<mic, playback>>

\* No stream, no model, or a model that does not start: what was opened is closed.
ArmFails(v) ==
    /\ \E from \in {"asking", "loading", "starting"} : Advance(v, from, "over")
    /\ speech = None
    /\ mic' = mic \ {v}
    /\ ResumesNow
    /\ UNCHANGED <<vadSession, listening>>

------------------------------------------------------------------------
(* Speech: the callbacks handed to the recorder *)

Hears(v) == stage[v] \in {"starting", "live"}
Heard(now) == listening' = IF listening = "idle" THEN "idle" ELSE now

SpeechStarts ==
    /\ \E v \in Sessions : Hears(v) /\ stops[v] = 0
    /\ Settled /\ speech = None /\ spoken < MaxUtterances
    /\ spoken' = spoken + 1 /\ speech' = MaxStarts + spoken'
    /\ pending' = Append(pending, speech')
    /\ Heard("speech")
    /\ timer' = FALSE /\ Queues(<<"pause">>)
    /\ UNCHANGED <<current, starting, boot, waiting, phase, ending, open, runs, started>>
    /\ UNCHANGED <<vadSession, stage, stops, mic>>

Silence ==
    /\ speech # None /\ Settled
    /\ speech' = None
    /\ Heard("listening")
    /\ timer' = TRUE
    /\ UNCHANGED <<current, starting, boot, waiting, phase, ending, open, started>>
    /\ UNCHANGED <<vadSession, stage, stops, mic, spoken, chain, paused>>

SpeechEnds ==
    /\ Silence
    /\ runs' = runs \cup {<<speech, Oldest(pending)>>}
    /\ pending' = WithoutOldest(pending)

\* Mistaken: an utterance that was none leaves its snapshot.
MisfiresLeaving ==
    /\ Silence
    /\ UNCHANGED <<runs, pending>>

Misfires ==
    /\ Silence
    /\ pending' = WithoutOldest(pending)
    /\ UNCHANGED runs

------------------------------------------------------------------------
(* stopVadRecording *)

AsksToStop ==
    /\ vadSession # None
    /\ stops' = [stops EXCEPT ![vadSession] = @ + 1]
    /\ UNCHANGED <<vadSession, stage, listening, mic, speech, spoken, playback>>

\* The toggle while something listens, or the switch to another surface.
StopListening ==
    /\ listening # "idle" /\ Settled
    /\ Impatient \/ (~Stopping /\ Patient)
    /\ AsksToStop
    /\ UNCHANGED recorder

\* destroy() is over, with or without an error.
SessionEnds(v) ==
    /\ stops[v] > 0 /\ speech = None
    /\ stops' = [stops EXCEPT ![v] = @ - 1]
    /\ vadSession' = None /\ stage' = [stage EXCEPT ![v] = "over"]
    /\ mic' = mic \ {v}
    /\ listening' = "idle"
    /\ ResumesNow
    /\ UNCHANGED <<recorder, speech, spoken>>

------------------------------------------------------------------------
(* The manual recorder's steps, with what they do to the playback *)

\* A start past its gate pauses, and takes the timer of the last utterance down.
Begins == \E s \in Starts : phase[s] \in {"none", "gate"} /\ phase'[s] \in {"waiting", "refused"}
Fell == \E s \in Starts : phase[s] # phase'[s] /\ phase'[s] \in {"refused", "failed"}
Ends == \E r \in Recordings : ending[r] # ending'[r] /\ ending'[r] = "over"
StopsNothing == Resuming("stop") /\ current = None

When(condition, call) == IF condition THEN <<call>> ELSE <<>>

\* Mistaken: a start that fails leaves the playback paused.
PlaybackFollowsForgetting ==
    /\ Queues(When(Begins, "pause") \o When(Ends \/ StopsNothing, "resume"))
    /\ timer' = (timer /\ ~Begins)

PlaybackFollows ==
    /\ Queues(When(Begins, "pause") \o When(Fell \/ Ends \/ StopsNothing, "resume"))
    /\ timer' = (timer /\ ~Begins)

\* cancelRecording(): with no manual recording to cancel, a session that listens is stopped.
CancelReaches ==
    /\ ResumeCancel
    /\ IF current = None /\ listening # "idle" THEN AsksToStop ELSE UNCHANGED <<activation, playback>>

Manual ==
    /\ \/ \E s \in Starts : AloneOr(Armed \/ Stopping) /\ ToggleStarts(s)
       \/ \E s \in Starts : Gated(s) \/ Opening(s)
       \/ \E r \in Recordings : Settled /\ Host(r)
       \/ BootAnswers \/ BootFails \/ ResumeStart \/ ResumeStop
       \/ AskStop
       \/ AskCancel /\ (Impatient \/ ~Stopping)
    /\ PlaybackFollows
    /\ UNCHANGED activation

Arms(v) == StreamOpens(v) \/ ModelLoads(v) \/ SessionStarts(v) \/ ArmFails(v)

Activation ==
    \/ \E v \in Sessions : Arm(v) \/ (Settled /\ (Arms(v) \/ SessionEnds(v)))
    \/ SpeechStarts \/ SpeechEnds \/ Misfires
    \/ StopListening \/ ResumeComesDue

CapturesNext ==
    \/ Len(chain) < PlaybackLag /\ (Manual \/ CancelReaches \/ Activation)
    \/ PlaybackTurns

captures == <<recorder, activation, playback>>
CapturesSpec == CapturesInit /\ [][CapturesNext]_captures

------------------------------------------------------------------------
(* Properties. *)

CapturesTypeOK ==
    /\ RecorderTypeOK
    /\ vadSession \in {None} \cup Sessions /\ listening \in {"idle", "listening", "speech"}
    /\ stage \in [Sessions -> {"none", "asking", "loading", "starting", "live", "over"}]
    /\ stops \in [Sessions -> Nat] /\ mic \subseteq Sessions
    /\ speech \in {None} \cup Utterances /\ spoken \in 0 .. MaxUtterances
    /\ timer \in BOOLEAN /\ paused \in BOOLEAN
    /\ chain \in Seq({"pause", "resume"})

\* vad-recorder.ts:177-200 a microphone that is open belongs to the session the next stop
\* reaches, or to a start or a stop that is still out: none is left recording with
\* nobody to close it.
NoHotMicrophone ==
    \A v \in mic : \/ vadSession = v /\ listening # "idle"
                   \/ stage[v] \in {"loading", "starting"}
                   \/ stops[v] > 0

\* capture-queue.ts:7-9, recording.ts:170-188 every recording and every utterance runs
\* with the snapshot its own start took, and once nothing is captured none is left for
\* the next to inherit.
EachWithItsOwn ==
    /\ runs \subseteq {<<c, c>> : c \in Starts \cup Utterances} \cup {<<0, None>>}
    /\ ~Live /\ ~EndingsOut /\ waiting = <<>> /\ speech = None => pending = <<>>

\* media.ts:20-22 and recording.ts:412-418 once nothing is captured and nothing is due,
\* what was paused plays again.
PlaybackReturns ==
    ~Recording /\ ~Armed /\ ~Stopping /\ ~timer /\ chain = <<>> => ~paused

\* recording.ts:278-280, 442-446 manual owns the playback for its whole recording:
\* nothing that waits resumes it before the end.
RecordsInSilence ==
    current \in Starts => \A i \in DOMAIN chain : chain[i] = "resume" =>
        \E j \in DOMAIN chain : j > i /\ chain[j] = "pause"

------------------------------------------------------------------------
(* Why they hold. *)

\* Whoever pauses resumes: it plays again at the end of what waits, or something is
\* under way that ends with a resume.
Returned == IF chain = <<>> THEN ~paused ELSE chain[Len(chain)] = "resume"
Owed == Live \/ EndingsOut \/ Armed \/ speech # None \/ timer
PlaybackInv == Returned \/ Owed

\* A patient page has little waiting: what its one start or its one stop asked, and a
\* cancel, which nothing is asked after.
Turns ==
    \/ waiting \in {<<>>, <<Cancel>>}
    \/ boot = "yes" /\ current # None /\ waiting = <<Stop(current)>>
    \/ \E s \in Starts : waiting \in {<<Start(s)>>, <<Start(s), Cancel>>}
GatedAlone ==
    (\E s \in Starts : phase[s] = "gate") =>
        ~EndingsOut /\ (waiting = <<>> \/ \E s \in Starts : waiting = <<Start(s)>>)
WaitsInTurn == Turns /\ GatedAlone

\* One session at a time, and one stop of it; nobody speaks to none.
OneArming ==
    /\ \A v, w \in Sessions : {stage[v], stage[w]} \subseteq {"asking", "loading", "starting"} => v = w
    /\ Arming => vadSession = None
Listened ==
    /\ \A v \in Sessions : (stage[v] = "live") <=> (vadSession = v)
    /\ (vadSession = None) <=> (listening = "idle")
    /\ \A v \in mic : stage[v] \in {"loading", "starting", "live"}
OneStop ==
    /\ \A v \in Sessions : stops[v] \in {0, 1} /\ (stops[v] = 1 => vadSession = v)
    /\ Cancel \in ToSet(waiting) => ~Stopping
OneSession == OneArming /\ Listened /\ OneStop /\ (speech # None => Armed)

\* The start whose snapshot is out.
Holds(s) == Starter(s) \/ current = s \/ ending[s] \in {"stopping", "cancelling"}

\* Captures that take turns: one snapshot waits, that of the one capture there is.
OneSnapshot ==
    \/ pending = <<>> /\ speech = None /\ \A s \in Starts : ~Holds(s)
    \/ speech # None /\ pending = <<speech>> /\ \A s \in Starts : ~Holds(s)
    \/ /\ speech = None
       /\ \E s \in Starts : pending = <<s>> /\ Holds(s) /\ \A t \in Starts : Holds(t) => t = s

InTurn ==
    /\ Armed => ~Live /\ ~EndingsOut /\ open = None /\ \A s \in Starts : phase[s] # "gate"
    /\ EndingsOut => current = None
    /\ current = 0 => \A s \in Starts : Holds(s) => phase[s] = "waiting"
    /\ ending[0] \in {"stopping", "cancelling"} => \A s \in Starts : ~Holds(s)
    /\ runs \subseteq {<<c, c>> : c \in Starts \cup Utterances} \cup {<<0, None>>}

CapturesInv ==
    /\ CapturesTypeOK /\ RecorderInv /\ PlaybackInv
    /\ ~Impatient => WaitsInTurn /\ OneSession
    /\ ~Impatient /\ ~Overlap => OneSnapshot /\ InTurn
===========================================================================
