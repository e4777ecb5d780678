--------------------------- MODULE HostRecorder ---------------------------
(***************************************************************************)
(* The host's one microphone recorder and the windows that use it:         *)
(* apps/desktop/src-tauri/src/recorder (recorder.rs, commands.rs) and the   *)
(* recorder service of a window                                            *)
(* (apps/tironian/src/lib/services/recorder/index.tauri.ts).               *)
(*                                                                         *)
(* Actors: a thread per command, a capture worker per recording, a thread   *)
(* per capture error, the main thread, and the JavaScript of each window.  *)
(* A page may ask for its next recording while it still stops the last:    *)
(* `call` is what is asked of each recording.  `lock` is the mutex around  *)
(* the recorder: a command that waits for its worker keeps it; a step that *)
(* only needs it for a moment waits until it is free.                      *)
(***************************************************************************)
EXTENDS Naturals, FiniteSets, Sequences

CONSTANTS
    Windows,
    None,
    MaxRecordings,  \* bound: recordings ever minted
    MaxChunks,      \* bound: chunks one microphone hands over
    QueueLimit,     \* CAPTURE_QUEUE_CHUNKS
    MaxReloads      \* bound: reloads of windows

ASSUME WindowsAssumption == None \notin Windows \cup Nat /\ IsFiniteSet(Windows)
ASSUME BoundsAssumption == {MaxRecordings, MaxChunks, MaxReloads} \subseteq Nat
ASSUME QueueAssumption == QueueLimit \in Nat \ {0}

Recordings == 1 .. MaxRecordings
MainThread == 0

VARIABLES
    slot,           \* Recorder.active
    lock,           \* who holds the recorder's mutex
    call,           \* what is asked of each recording, by whom, and how far it is
    worker,         \* each recording's capture thread
    commands,       \* the command channel of each worker
    stream,         \* each recording's microphone: closed, open, or dead
    audio,          \* its chunks: in the queue, accepted, written; its file
    enders,         \* threads about to call end_recording_capture
    troubled,       \* history: recordings whose stream, file or closing failed
    tray,           \* what the tray shows
    posted,         \* whether a refresh of the tray waits for the main thread
    main,           \* the window the main thread is destroying, or None
    alive,          \* windows that exist
    js,             \* what each window's JavaScript knows
    events,         \* RecordingEndedEvent on its way
    minted, reloads

host == <<slot, lock, call>>
capture == <<worker, commands, stream, audio, enders, troubled>>
shell == <<tray, posted, main, alive>>
page == <<js, events, reloads>>
vars == <<host, capture, shell, page, minted>>

Calling(kind, w) == [at |-> "asking", kind |-> kind, by |-> w, heard |-> TRUE]
Quiet == [at |-> "idle", kind |-> "none", by |-> None, heard |-> FALSE]
Fresh == [booted |-> FALSE, holds |-> 0, listening |-> FALSE, checking |-> FALSE,
          told |-> FALSE]
Holding(r, told) == [booted |-> TRUE, holds |-> r, listening |-> FALSE,
                     checking |-> FALSE, told |-> told]

Init ==
    /\ slot = None /\ lock = None /\ call = [r \in Recordings |-> Quiet]
    /\ worker = [r \in Recordings |-> "none"]
    /\ commands = [r \in Recordings |-> <<>>]
    /\ stream = [r \in Recordings |-> "closed"]
    /\ audio = [r \in Recordings |->
                   [queued |-> 0, accepted |-> 0, written |-> 0, file |-> "none"]]
    /\ enders = {} /\ troubled = {}
    /\ tray = FALSE /\ posted = FALSE /\ main = None /\ alive = Windows
    /\ js = [w \in Windows |-> Fresh] /\ events = {}
    /\ minted = 0 /\ reloads = 0

Held(r) == slot # None /\ slot.id = r
Capturing == slot # None /\ ~slot.ended
Owned(r, w) == Held(r) /\ slot.owner = w

Asking(r, kind) == call[r].at = "asking" /\ call[r].kind = kind /\ lock = None
Answered(r) == call' = [call EXCEPT ![r] = Quiet]
Send(r, command) == commands' = [commands EXCEPT ![r] = Append(@, command)]

------------------------------------------------------------------------
(* start_recording *)

\* A page's manual recorder starts one recording at a time, holding none, and has
\* asked the host first whether the window owns one.
CallStart(w) ==
    /\ w \in alive /\ js[w].booted /\ js[w].holds = 0 /\ minted < MaxRecordings
    /\ \A r \in Recordings :
          ~(call[r].kind = "start" /\ call[r].by = w /\ call[r].heard)
    /\ minted' = minted + 1
    /\ call' = [call EXCEPT ![minted + 1] = Calling("start", w)]
    /\ UNCHANGED <<slot, lock, capture, shell, page>>

StartBusy(r) ==
    /\ Asking(r, "start") /\ slot # None
    /\ Answered(r)
    /\ UNCHANGED <<slot, lock, capture, shell, page, minted>>

\* No device, no staging file.
StartFails(r) ==
    /\ Asking(r, "start") /\ slot = None
    /\ Answered(r)
    /\ UNCHANGED <<slot, lock, capture, shell, page, minted>>

StartOpens(r) ==
    /\ Asking(r, "start") /\ slot = None
    /\ lock' = r
    /\ call' = [call EXCEPT ![r].at = "opening"]
    /\ worker' = [worker EXCEPT ![r] = "opening"]
    /\ audio' = [audio EXCEPT ![r].file = "staged"]
    /\ UNCHANGED <<slot, commands, stream, enders, troubled, shell, page, minted>>

WorkerOpens(r) ==
    /\ worker[r] = "opening"
    /\ worker' = [worker EXCEPT ![r] = "capturing"]
    /\ stream' = [stream EXCEPT ![r] = "open"]
    /\ UNCHANGED <<host, commands, audio, enders, troubled, shell, page, minted>>

WorkerCannotOpen(r) ==
    /\ worker[r] = "opening"
    /\ worker' = [worker EXCEPT ![r] = "done"]
    /\ audio' = [audio EXCEPT ![r].file = "gone"]
    /\ UNCHANGED <<host, commands, stream, enders, troubled, shell, page, minted>>

\* The stream is ready, or the worker is gone.  A page that reloaded meanwhile has
\* nobody to answer to.
StartReturns(r) ==
    /\ call[r].at = "opening" /\ worker[r] # "opening"
    /\ LET w == call[r].by
           opened == worker[r] # "done"
       IN  /\ slot' = IF opened THEN [id |-> r, owner |-> w, ended |-> FALSE] ELSE slot
           /\ posted' = (posted \/ opened)
           /\ js' = IF opened /\ call[r].heard THEN [js EXCEPT ![w] = Holding(r, FALSE)]
                    ELSE js
    /\ lock' = None /\ Answered(r)
    /\ UNCHANGED <<capture, tray, main, alive, events, reloads, minted>>

------------------------------------------------------------------------
(* stop_recording and cancel_recording *)

\* The manual recorder lets go of the recording before it asks.
CallEnd(w, kind) ==
    /\ w \in alive /\ js[w].holds # 0 /\ call[js[w].holds] = Quiet
    /\ call' = [call EXCEPT ![js[w].holds] = Calling(kind, w)]
    /\ js' = [js EXCEPT ![w] = Holding(0, FALSE)]
    /\ UNCHANGED <<slot, lock, capture, shell, events, reloads, minted>>

EndRefused(r, kind) ==
    /\ Asking(r, kind) /\ ~Owned(r, call[r].by)
    /\ posted' = TRUE /\ Answered(r)
    /\ UNCHANGED <<slot, lock, capture, tray, main, alive, page, minted>>

\* Mistaken: the lock is let go while the worker still answers.
EndTakesUnlocked(r, kind) ==
    /\ Asking(r, kind) /\ Owned(r, call[r].by)
    /\ slot' = None
    /\ Send(r, kind)
    /\ call' = [call EXCEPT ![r].at = "joining"]
    /\ UNCHANGED <<lock, worker, stream, audio, enders, troubled, shell, page, minted>>

\* The slot is emptied, the worker told, and the lock kept until it is gone.
EndTakes(r, kind) ==
    /\ Asking(r, kind) /\ Owned(r, call[r].by)
    /\ slot' = None /\ lock' = r
    /\ Send(r, kind)
    /\ call' = [call EXCEPT ![r].at = "joining"]
    /\ UNCHANGED <<worker, stream, audio, enders, troubled, shell, page, minted>>

EndReturns(r) ==
    /\ call[r].at = "joining" /\ worker[r] = "done"
    /\ lock' = None /\ posted' = TRUE
    /\ call' = [call EXCEPT ![r] = IF @.kind = "stop" THEN [@ EXCEPT !.at = "publishing"]
                                  ELSE Quiet]
    /\ UNCHANGED <<slot, capture, tray, main, alive, page, minted>>

\* finalized.publish(), outside the lock.
Publish(r) ==
    /\ call[r].at = "publishing"
    /\ \E file \in {"published", "gone"} : audio' = [audio EXCEPT ![r].file = file]
    /\ Answered(r)
    /\ UNCHANGED <<slot, lock, worker, commands, stream, enders, troubled, shell, page,
                   minted>>

------------------------------------------------------------------------
(* The microphone and the capture worker *)

\* hand_off(): a chunk that finds the queue full is dropped.
HandOff(r) ==
    /\ stream[r] = "open" /\ audio[r].accepted < MaxChunks
    /\ audio[r].queued < QueueLimit
    /\ audio' = [audio EXCEPT ![r].queued = @ + 1, ![r].accepted = @ + 1]
    /\ UNCHANGED <<host, worker, commands, stream, enders, troubled, shell, page, minted>>

\* capture_error_handler, for a terminal error: a thread of its own.
StreamDies(r) ==
    /\ stream[r] = "open"
    /\ stream' = [stream EXCEPT ![r] = "dead"]
    /\ enders' = enders \cup {r} /\ troubled' = troubled \cup {r}
    /\ UNCHANGED <<host, worker, commands, audio, shell, page, minted>>

Write(r) ==
    /\ worker[r] = "capturing" /\ audio[r].queued > 0
    /\ audio' = [audio EXCEPT ![r].queued = @ - 1, ![r].written = @ + 1]
    /\ UNCHANGED <<host, worker, commands, stream, enders, troubled, shell, page, minted>>

\* Mistaken: a recording that cannot be written any further is thrown away.
WriteFailsDiscarding(r) ==
    /\ worker[r] = "capturing" /\ audio[r].queued > 0
    /\ stream' = [stream EXCEPT ![r] = "closed"]
    /\ worker' = [worker EXCEPT ![r] = "done"]
    /\ audio' = [audio EXCEPT ![r].queued = 0, ![r].file = "gone"]
    /\ enders' = enders \cup {r} /\ troubled' = troubled \cup {r}
    /\ UNCHANGED <<host, commands, shell, page, minted>>

\* The microphone is closed, what was written waits to be claimed, and a thread of
\* its own tells the recorder.
WriteFails(r) ==
    /\ worker[r] = "capturing" /\ audio[r].queued > 0
    /\ stream' = [stream EXCEPT ![r] = "closed"]
    /\ worker' = [worker EXCEPT ![r] = "waiting"]
    /\ audio' = [audio EXCEPT ![r].queued = 0]
    /\ enders' = enders \cup {r} /\ troubled' = troubled \cup {r}
    /\ UNCHANGED <<host, commands, shell, page, minted>>

\* Mistaken: what is still in the queue goes with it.
ClosedUndrained(r) == [audio[r] EXCEPT !.queued = 0]

\* close_capture_and_drain(): what the microphone handed over is written.
Closed(r) == [audio[r] EXCEPT !.queued = 0, !.written = @ + audio[r].queued]

\* run_capture(), its command branch.  The drain gives up when a write fails or the
\* stream takes too long to close.
Obey(r) ==
    /\ worker[r] = "capturing" /\ commands[r] # <<>>
    /\ LET command == Head(commands[r])
       IN  \E drained \in BOOLEAN :
              LET closed == IF drained THEN Closed(r) ELSE [audio[r] EXCEPT !.queued = 0]
              IN  /\ drained \/ (audio[r].queued > 0 /\ command # "cancel")
                  /\ troubled' = IF drained THEN troubled ELSE troubled \cup {r}
                  /\ worker' = [worker EXCEPT ![r] = IF command = "end" THEN "waiting"
                                                    ELSE "done"]
                  /\ audio' = [audio EXCEPT ![r] =
                         CASE command = "stop" -> [closed EXCEPT !.file = "finished"]
                           [] command = "cancel" -> [@ EXCEPT !.queued = 0, !.file = "gone"]
                           [] command = "end" -> closed]
    /\ stream' = [stream EXCEPT ![r] = "closed"]
    /\ commands' = [commands EXCEPT ![r] = Tail(@)]
    /\ UNCHANGED <<host, enders, shell, page, minted>>

\* Mistaken: only a cancel resolves a recording whose capture is over.
AwaitCancellation(r) ==
    /\ worker[r] = "waiting" /\ commands[r] # <<>>
    /\ LET command == Head(commands[r])
       IN  /\ worker' = [worker EXCEPT ![r] = IF command = "cancel" THEN "done" ELSE @]
           /\ audio' = [audio EXCEPT ![r].file = IF command = "cancel" THEN "gone" ELSE @]
    /\ commands' = [commands EXCEPT ![r] = Tail(@)]
    /\ UNCHANGED <<host, stream, enders, troubled, shell, page, minted>>

\* await_resolution()
AwaitResolution(r) ==
    /\ worker[r] = "waiting" /\ commands[r] # <<>>
    /\ LET command == Head(commands[r])
       IN  /\ worker' = [worker EXCEPT ![r] = IF command = "end" THEN @ ELSE "done"]
           /\ audio' = [audio EXCEPT ![r].file = CASE command = "stop" -> "finished"
                                                   [] command = "cancel" -> "gone"
                                                   [] command = "end" -> @]
    /\ commands' = [commands EXCEPT ![r] = Tail(@)]
    /\ UNCHANGED <<host, stream, enders, troubled, shell, page, minted>>

------------------------------------------------------------------------
(* end_recording_capture *)

\* Mistaken: whatever recording is held is ended.
EndCaptureOfAny(r) ==
    /\ r \in enders /\ lock = None
    /\ enders' = enders \ {r}
    /\ IF slot # None /\ ~slot.ended
       THEN /\ slot' = [slot EXCEPT !.ended = TRUE]
            /\ Send(slot.id, "end")
            /\ posted' = TRUE /\ events' = events \cup {<<slot.owner, slot.id>>}
       ELSE UNCHANGED <<slot, commands, posted, events>>
    /\ UNCHANGED <<lock, call, worker, stream, audio, troubled, tray, main, alive, js,
                   reloads, minted>>

\* Only the named recording, and only once: the worker is told and not waited for.
EndCapture(r) ==
    /\ r \in enders /\ lock = None
    /\ enders' = enders \ {r}
    /\ IF Held(r) /\ ~slot.ended
       THEN /\ slot' = [slot EXCEPT !.ended = TRUE]
            /\ Send(r, "end")
            /\ posted' = TRUE /\ events' = events \cup {<<slot.owner, r>>}
       ELSE UNCHANGED <<slot, commands, posted, events>>
    /\ UNCHANGED <<lock, call, worker, stream, audio, troubled, tray, main, alive, js,
                   reloads, minted>>

------------------------------------------------------------------------
(* The main thread *)

\* refresh_recording_indicator(): the closure reads the recorder when it runs.
Refresh ==
    /\ posted /\ main = None /\ lock = None
    /\ tray' = Capturing /\ posted' = FALSE
    /\ UNCHANGED <<host, capture, main, alive, page, minted>>

\* What the page asked goes on in the host; nobody hears the answer.
PageGone(w) ==
    /\ js' = [js EXCEPT ![w] = Fresh]
    /\ call' = [r \in Recordings |-> IF call[r].by = w THEN [call[r] EXCEPT !.heard = FALSE]
                                     ELSE call[r]]

Destroyed(w) ==
    /\ main = None /\ w \in alive
    /\ main' = w /\ alive' = alive \ {w} /\ PageGone(w)
    /\ UNCHANGED <<slot, lock, capture, tray, posted, events, reloads, minted>>

\* cancel_recording_owned_by()
CancelOwned ==
    /\ main # None /\ lock = None
    /\ IF slot # None /\ slot.owner = main
       THEN /\ slot' = None /\ lock' = MainThread /\ Send(slot.id, "cancel")
            /\ UNCHANGED <<posted, main>>
       ELSE /\ main' = None /\ posted' = TRUE
            /\ UNCHANGED <<slot, lock, commands>>
    /\ UNCHANGED <<call, worker, stream, audio, enders, troubled, tray, alive, page, minted>>

CancelJoined ==
    /\ lock = MainThread
    /\ \A r \in Recordings : commands[r] = <<>> /\ worker[r] \in {"none", "done"}
    /\ lock' = None /\ main' = None /\ posted' = TRUE
    /\ UNCHANGED <<slot, call, capture, tray, alive, page, minted>>

------------------------------------------------------------------------
(* The JavaScript of a window (index.tauri.ts) *)

\* current(), before the first operation after a load.
Boot(w) ==
    /\ w \in alive /\ ~js[w].booted /\ lock = None
    /\ js' = [js EXCEPT ![w] =
                 IF slot # None /\ slot.owner = w THEN Holding(slot.id, slot.ended)
                 ELSE Holding(0, FALSE)]
    /\ UNCHANGED <<host, capture, shell, events, reloads, minted>>

\* Mistaken: the host is not asked once the listener is there.
ListenUnchecked(w) ==
    /\ js[w].holds # 0 /\ ~js[w].listening
    /\ js' = [js EXCEPT ![w].listening = TRUE]
    /\ UNCHANGED <<host, capture, shell, events, reloads, minted>>

\* listen() resolves, and the host is asked what the listener may have missed.
Listen(w) ==
    /\ js[w].holds # 0 /\ ~js[w].listening
    /\ js' = [js EXCEPT ![w].listening = TRUE, ![w].checking = TRUE]
    /\ UNCHANGED <<host, capture, shell, events, reloads, minted>>

Reconcile(w) ==
    /\ js[w].checking /\ lock = None
    /\ js' = [js EXCEPT ![w].checking = FALSE,
                        ![w].told = @ \/ (Owned(js[w].holds, w) /\ slot.ended)]
    /\ UNCHANGED <<host, capture, shell, events, reloads, minted>>

\* An event reaches the listener of the recording it names, or nobody.
Arrive(w, r) ==
    /\ <<w, r>> \in events
    /\ events' = events \ {<<w, r>>}
    /\ js' = IF js[w].listening /\ js[w].holds = r THEN [js EXCEPT ![w].told = TRUE] ELSE js
    /\ UNCHANGED <<host, capture, shell, reloads, minted>>

\* The handler of an ending stops the recording (watchManualRecordingEnded).
Claim(w) == js[w].told /\ CallEnd(w, "stop")

Reload(w) ==
    /\ w \in alive /\ reloads < MaxReloads
    /\ reloads' = reloads + 1 /\ PageGone(w)
    /\ UNCHANGED <<slot, lock, capture, shell, events, minted>>

------------------------------------------------------------------------
Command(r) ==
    \/ StartBusy(r) \/ StartFails(r) \/ StartOpens(r) \/ StartReturns(r)
    \/ \E kind \in {"stop", "cancel"} : EndRefused(r, kind) \/ EndTakes(r, kind)
    \/ EndReturns(r) \/ Publish(r)
Worker(r) ==
    WorkerOpens(r) \/ WorkerCannotOpen(r) \/ Write(r) \/ WriteFails(r) \/ Obey(r)
    \/ AwaitResolution(r)
Main == Refresh \/ CancelOwned \/ CancelJoined
Page(w) == Listen(w) \/ Reconcile(w) \/ Claim(w) \/ \E r \in Recordings : Arrive(w, r)

Next ==
    \/ \E w \in Windows :
          \/ Page(w) \/ Boot(w) \/ Reload(w) \/ Destroyed(w)
          \/ CallStart(w) \/ \E kind \in {"stop", "cancel"} : CallEnd(w, kind)
    \/ \E r \in Recordings :
          Command(r) \/ Worker(r) \/ HandOff(r) \/ StreamDies(r) \/ EndCapture(r)
    \/ Main

\* While a thread, the main loop or a promise can go on, one of them does; what a person,
\* a device and a reload do need not happen.
Fairness ==
    WF_vars(Main \/ (\E w \in Windows : Page(w))
                 \/ \E r \in Recordings : \/ Command(r) \/ EndCapture(r)
                                          \/ Obey(r) \/ AwaitResolution(r)
                                          \/ WorkerOpens(r) \/ WorkerCannotOpen(r))

Spec == Init /\ [][Next]_vars /\ Fairness

------------------------------------------------------------------------
(* Properties. *)

\* Call, Knowledge and Audio are what `call`, `js` and `audio` say of one of theirs.
Slot == [id : Recordings, owner : Windows, ended : BOOLEAN]
ASSUME SlotAssumption == None \notin Slot
Call ==
    {Quiet} \cup [at : {"asking", "opening", "joining", "publishing"},
                 kind : {"start", "stop", "cancel"}, by : Windows, heard : BOOLEAN]
Audio ==
    [queued : Nat, accepted : Nat, written : Nat,
     file : {"none", "staged", "finished", "published", "gone"}]
Knowledge ==
    [booted : BOOLEAN, holds : Recordings \cup {0}, listening : BOOLEAN, checking : BOOLEAN,
     told : BOOLEAN]

TypeOK ==
    /\ slot = None \/ slot \in Slot
    /\ lock \in Recordings \cup {None, MainThread} /\ call \in [Recordings -> Call]
    /\ worker \in [Recordings -> {"none", "opening", "capturing", "waiting", "done"}]
    /\ commands \in [Recordings -> Seq({"stop", "cancel", "end"})]
    /\ stream \in [Recordings -> {"closed", "open", "dead"}]
    /\ audio \in [Recordings -> Audio]
    /\ enders \subseteq Recordings /\ troubled \subseteq Recordings
    /\ tray \in BOOLEAN /\ posted \in BOOLEAN
    /\ main \in Windows \cup {None} /\ alive \subseteq Windows
    /\ js \in [Windows -> Knowledge] /\ events \subseteq Windows \X Recordings
    /\ minted \in 0 .. MaxRecordings /\ reloads \in Nat

\* recorder.rs:640-646 there is never a second microphone: a start is not admitted
\* before the worker of the last recording has let go of its own.
OneMicrophone == Cardinality({r \in Recordings : stream[r] # "closed"}) <= 1

\* recorder.rs:1035-1038 an occupied slot is claimable: its worker is there, and
\* its file is as the capture left it, whatever became of the microphone.
SlotIsClaimable ==
    slot # None => /\ worker[slot.id] \in {"capturing", "waiting"}
                   /\ audio[slot.id].file = "staged"

\* recorder.rs:607-611 the recording marked as ended is the one that failed, never
\* one that was started after it.
EndedTruly == slot # None /\ slot.ended => slot.id \in troubled

\* recorder.rs:961-979 a recording that did not fail holds, once stopped, every
\* chunk the microphone handed over.
TailIsKept ==
    \A r \in Recordings \ troubled :
        audio[r].file \in {"finished", "published"} => audio[r].written = audio[r].accepted

\* commands.rs:59-63 when nothing is on its way to the tray it shows whether a
\* microphone is open for the recording held.
TrayIsHonest == ~posted /\ main = None /\ lock = None => tray = Capturing

\* Every command is answered: no thread waits for one that waits for it.
CommandsReturn == \A r \in Recordings : call[r].at # "idle" ~> call[r].at = "idle"

\* index.tauri.ts:244-254 a page that holds a recording whose capture ended hears
\* of it and lets go, whenever the ending fell: the slot does not wedge.
EndingIsHeard ==
    \A w \in Windows, r \in Recordings :
        (Held(r) /\ slot.ended /\ js[w].holds = r) ~> (js[w].holds # r \/ ~Held(r))

\* commands.rs:302-304 a recording of a destroyed window does not keep the slot.
DestroyedHoldNothing == slot # None => slot.owner \in alive \/ slot.owner = main

\* commands.rs:227-230 a page that asked the host after a reload can name the
\* recording its window owns.
OwnersCanName ==
    slot # None /\ js[slot.owner].booted =>
        js[slot.owner].holds = slot.id \/ call[slot.id].heard

------------------------------------------------------------------------
(* Why they hold. *)

\* A recording whose start has not been admitted has no worker.
StartHasNoWorker(r) ==
    /\ r > minted => call[r] = Quiet
    /\ r > minted \/ (call[r].at = "asking" /\ call[r].kind = "start") => worker[r] = "none"

\* The mutex is held by the command that waits for its worker, or by the main thread
\* that does, and whoever waits has left the slot empty.
LockIsAccounted ==
    /\ \A r \in Recordings : lock = r <=> call[r].at \in {"opening", "joining"}
    /\ lock = MainThread => main # None
    /\ lock # None => slot = None

\* There is one worker at most, and somebody holds it or waits for it.
Live(r) == worker[r] \in {"opening", "capturing", "waiting"}
OneWorker == \A q, r \in Recordings : Live(q) /\ Live(r) => q = r

WorkerIsOwned(r) ==
    /\ Live(r) => Held(r) \/ call[r].at \in {"opening", "joining"} \/ lock = MainThread
    /\ worker[r] = "opening" => call[r].at = "opening"
WorkersAreOwned == \A r \in Recordings : WorkerIsOwned(r)

\* What the worker of a recording has still to be told.
Told(r) == {commands[r][i] : i \in DOMAIN commands[r]}

\* A worker that is not there yet, or is being opened, has been told nothing.
OpeningIsSound(r) ==
    /\ worker[r] = "none" => Told(r) = {}
    /\ call[r].at = "opening" =>
           /\ call[r].kind = "start" /\ worker[r] # "none" /\ Told(r) = {}
           /\ worker[r] # "done" => audio[r].file = "staged"

\* A recording somebody stops is told nothing that would throw it away.
StopIsSound(r) ==
    /\ call[r].at \in {"joining", "publishing"} =>
           call[r].kind \in {"stop", "cancel"} /\ worker[r] # "none"
    /\ call[r].at = "publishing" => call[r].kind = "stop" /\ worker[r] = "done"
    /\ call[r].at \in {"joining", "publishing"} /\ call[r].kind = "stop" =>
           Told(r) \subseteq {"end", "stop"} /\ audio[r].file # "gone"

\* The worker of the recording held has been told of its ending at most.
SlotIsSound == slot # None => slot.id <= minted /\ Told(slot.id) \subseteq {"end"}

PagesNameTheMinted == \A w \in Windows : js[w].holds <= minted

TroubleIsKnown == enders \subseteq troubled

\* No chunk is lost between the microphone and the file, and a microphone is as open
\* as its worker.
KeepsChunks(r) ==
    /\ stream[r] # "closed" <=> worker[r] = "capturing"
    /\ worker[r] # "capturing" => audio[r].queued = 0
    /\ worker[r] = "none" => audio[r].file = "none"
    /\ audio[r].file \in {"finished", "published", "gone"} => worker[r] = "done"
    /\ r \notin troubled /\ audio[r].file # "gone" =>
           audio[r].written + audio[r].queued = audio[r].accepted

\* While a recording is opened the tray still shows that none is held.
TrayIsSound ==
    ~posted /\ main = None /\ (lock = None \/ \E r \in Recordings : call[r].at = "opening") =>
        tray = Capturing

RecordingsAreSound ==
    \A r \in Recordings :
        StartHasNoWorker(r) /\ OpeningIsSound(r) /\ StopIsSound(r) /\ KeepsChunks(r)

HostIInv ==
    /\ TypeOK /\ RecordingsAreSound /\ LockIsAccounted /\ OneWorker /\ WorkersAreOwned
    /\ SlotIsSound /\ SlotIsClaimable /\ EndedTruly /\ TroubleIsKnown
    /\ PagesNameTheMinted /\ TrayIsSound
===========================================================================
