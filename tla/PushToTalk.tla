---------------------------- MODULE PushToTalk ----------------------------
(***************************************************************************)
(* Push-to-talk and its hands-free lock over the manual recorder:           *)
(* apps/tironian/src/lib/operations/push-to-talk.ts and hands-free.ts, with *)
(* ManualRecorder for what they call.                                      *)
(*                                                                         *)
(* Time is what the code tells apart: the double-tap window is open, past   *)
(* or not running; the held stop's timer fires some time after the window   *)
(* is past (a hidden page is late); the cap of a session fires or not.      *)
(* Presses and releases come in any order: edges get lost and doubled.      *)
(***************************************************************************)
EXTENDS ManualRecorder

ASSUME SessionAssumption ==
    None \notin [id : Nat, rec : {None} \cup Nat, stopRequested : BOOLEAN, lockedOpen : BOOLEAN]

VARIABLES
    session,        \* push-to-talk.ts session, or None
    cap,            \* capTimer: None, or which fuse is armed
    pendingStart,   \* the start whose promise pendingStart is
    settling,       \* starts that stop what they started before they resolve
    locking,        \* starts after which lockOpen is called
    locked,         \* hands-free.ts locked
    window,         \* lastPressedAt: none, open or past the window
    heldStop,       \* whether pendingStop holds a stop
    disposal,       \* how far dispose(app) is, and what it awaits
    pressed,        \* history: the starts push-to-talk made
    released,       \* history: sessions a release was for
    overdue         \* history: starts of a press that ran the held stop

talk == <<session, cap, pendingStart, settling, locking>>
hands == <<locked, window, heldStop, disposal>>
seen == <<pressed, released, overdue>>
vars == <<recorder, talk, hands, seen>>

NotDisposed == [at |-> "no", of |-> None]
Session(s) == [id |-> s, rec |-> None, stopRequested |-> FALSE, lockedOpen |-> FALSE]

TalkInit ==
    /\ Init
    /\ session = None /\ cap = None /\ pendingStart = None
    /\ settling = {} /\ locking = {}
    /\ locked = FALSE /\ window = "none" /\ heldStop = FALSE /\ disposal = NotDisposed
    /\ pressed = {} /\ released = {} /\ overdue = {}

\* What the synchronous part of a call leaves: push-to-talk's state, and the recorder's
\* continuations.
Now == [session |-> session, cap |-> cap, queue |-> waiting]

\* clearSession()
Cleared(now) == [session |-> None, cap |-> None, queue |-> now.queue]

\* Mistaken: whatever recording is held is stopped.
StopByIdOfAny(now, r) ==
    IF r # None /\ current # None THEN [now EXCEPT !.queue = Append(@, Stop(r))] ELSE now

\* stopManualRecordingById(), which looks before it awaits.
StopById(now, r) ==
    IF r # None /\ current = r THEN [now EXCEPT !.queue = Append(@, Stop(r))] ELSE now

\* end(), of the session there is.
Ended(now) == StopById(Cleared(now), now.session.rec)

\* Mistaken: a release during the startup is not remembered.
ReleasedForgetting(now) ==
    IF now.session = None THEN now
    ELSE IF current # None THEN Ended(now)
    ELSE IF starting THEN now
    ELSE Cleared(now)

\* push-to-talk.ts stop()
Released(now) ==
    IF now.session = None THEN now
    ELSE IF current # None THEN Ended(now)
    ELSE IF starting THEN [now EXCEPT !.session.stopRequested = TRUE]
    ELSE Cleared(now)

FuseOf(which) == IF which.lockedOpen THEN "locked" ELSE "hold"

\* Mistaken: a lock leaves the fuse of the hold.
LockOpenKeepingFuse(now) ==
    IF now.session = None THEN now ELSE [now EXCEPT !.session.lockedOpen = TRUE]

\* lockOpen()
LockOpen(now) ==
    IF now.session = None THEN now
    ELSE [now EXCEPT !.session.lockedOpen = TRUE,
                     !.cap = IF now.session.rec = None THEN @ ELSE "locked"]

IsStale(now) ==
    now.session # None /\ pendingStart = None /\ current = None /\ ~starting

\* What start() does with the answer to its startManualRecording: the session may be
\* another's by now, or have been released.
IsMine(now, s) == now.session # None /\ now.session.id = s
MustStop(now, s) == ~IsMine(now, s) \/ now.session.stopRequested
ThenStop(now, r) == [now EXCEPT !.queue = Append(@, Stop(r))]

Opened(now, s) ==
    IF ~IsMine(now, s) THEN ThenStop(now, s)
    ELSE IF now.session.stopRequested THEN ThenStop(Cleared(now), s)
    ELSE [now EXCEPT !.session.rec = s, !.cap = FuseOf(now.session)]

NotOpened(now, s) == IF IsMine(now, s) THEN Cleared(now) ELSE now

\* `finally`, and what onPressed does when the start resolves.
Resolved(now, s) ==
    LET after == IF s \in locking THEN LockOpen(now) ELSE now
    IN  /\ session' = after.session /\ cap' = after.cap
        /\ pendingStart' = IF pendingStart = s THEN None ELSE pendingStart
        /\ locking' = locking \ {s}

Became(now) == session' = now.session /\ cap' = now.cap
SameStarts == UNCHANGED <<pendingStart, settling, locking>>
Asked(now) ==
    /\ Became(now) /\ Await(now.queue) /\ SameStarts
    /\ UNCHANGED <<current, starting, phase, ending, open, pending, runs, started>>
NoStart == UNCHANGED <<pressed, overdue>>
ForSession == released' = IF session = None THEN released ELSE released \cup {session.id}

------------------------------------------------------------------------
(* Edges of the hold chord *)

\* push-to-talk.ts start(): a live session is left as it is.
StartAfter(before, lock, late) ==
    LET now == IF IsStale(before) THEN Cleared(before) ELSE before
        s == started + 1
    IN  IF now.session # None
        THEN Asked(IF lock THEN LockOpen(now) ELSE now) /\ NoStart
        ELSE /\ Called(s, now.queue)
             /\ pressed' = pressed \cup {s}
             /\ overdue' = IF late THEN overdue \cup {s} ELSE overdue
             /\ UNCHANGED settling
             /\ IF phase'[s] = "refused"
                THEN /\ Became(now) /\ pendingStart' = None /\ UNCHANGED locking
                ELSE /\ session' = Session(s) /\ cap' = None /\ pendingStart' = s
                     /\ locking' = IF lock THEN locking \cup {s} ELSE locking

Chord == Settled /\ disposal = NotDisposed /\ UNCHANGED disposal

\* The third press: the lock is let go.
PressUnlocks ==
    /\ Chord /\ locked
    /\ locked' = FALSE /\ window' = "none"
    /\ Asked(Released(Now)) /\ ForSession /\ NoStart
    /\ UNCHANGED heldStop

\* The second tap.
PressLocks ==
    /\ Chord /\ ~locked /\ window = "open"
    /\ locked' = TRUE /\ window' = "none" /\ heldStop' = FALSE
    /\ StartAfter(Now, TRUE, FALSE)
    /\ UNCHANGED released

\* A press of its own: a stop still held runs first, in the same turn.
Press ==
    /\ Chord /\ ~locked /\ window # "open"
    /\ window' = "open" /\ heldStop' = FALSE
    /\ LET before == IF heldStop THEN Released(Now) ELSE Now
       IN  StartAfter(before, FALSE, before.queue # waiting)
    /\ IF heldStop THEN ForSession ELSE UNCHANGED released
    /\ UNCHANGED locked

LetGo ==
    /\ Chord /\ ~locked
    /\ \/ /\ window = "open" /\ heldStop' = TRUE
          /\ UNCHANGED <<recorder, talk, window, released>>
       \/ /\ window # "open" /\ window' = "none"
          /\ Asked(Released(Now)) /\ ForSession
          /\ UNCHANGED heldStop
    /\ NoStart /\ UNCHANGED locked

------------------------------------------------------------------------
(* Timers *)

WindowPasses ==
    /\ Settled /\ window = "open" /\ window' = "past"
    /\ UNCHANGED <<recorder, talk, locked, heldStop, disposal, seen>>

HeldStopRuns ==
    /\ Settled /\ heldStop /\ window = "past"
    /\ heldStop' = FALSE /\ window' = "none"
    /\ Asked(Released(Now)) /\ ForSession /\ NoStart
    /\ UNCHANGED <<locked, disposal>>

CapFires ==
    /\ Settled /\ cap # None
    /\ Asked(Ended(Now))
    /\ UNCHANGED <<hands, seen>>

------------------------------------------------------------------------
(* Teardown of the session of the user interface *)

Dispose ==
    /\ Settled /\ disposal = NotDisposed
    /\ locked' = FALSE /\ window' = "none" /\ heldStop' = FALSE
    /\ IF session = None
       THEN disposal' = [at |-> "gone", of |-> None] /\ UNCHANGED <<recorder, talk>>
       ELSE IF pendingStart # None
       THEN /\ disposal' = [at |-> "start", of |-> pendingStart]
            /\ session' = [session EXCEPT !.stopRequested = TRUE]
            /\ UNCHANGED <<recorder, cap, pendingStart, settling, locking>>
       ELSE /\ disposal' = [at |-> "stop", of |-> session.rec]
            /\ Asked(Ended(Now))
    /\ UNCHANGED seen

Disposed ==
    /\ \/ disposal.at = "start" /\ disposal.of # pendingStart /\ disposal.of \notin settling
       \/ disposal.at = "stop" /\ Stop(disposal.of) \notin ToSet(waiting)
            /\ ending[disposal.of] \in {"no", "over"}
    /\ disposal' = [at |-> "gone", of |-> None]
    /\ UNCHANGED <<recorder, talk, locked, window, heldStop, seen>>

------------------------------------------------------------------------
(* The recorder's steps, and what push-to-talk's start does when one resolves it *)

Follows ==
    LET failed == {s \in pressed : phase'[s] # phase[s]
                                     /\ phase'[s] \in {"withheld", "refused", "failed"}}
    IN  IF failed = {} THEN UNCHANGED talk
        ELSE /\ \A s \in failed : Resolved(NotOpened(Now, s), s)
             /\ UNCHANGED settling

Opens(s) ==
    LET now == Opened(Now, s)
    IN  /\ Settled /\ HostOpens(s, IF s \in pressed THEN now.queue ELSE waiting)
        /\ IF s \notin pressed THEN UNCHANGED talk
           ELSE IF MustStop(Now, s)
           THEN /\ Became(now) /\ settling' = settling \cup {s}
                /\ UNCHANGED <<pendingStart, locking>>
           ELSE Resolved(now, s) /\ UNCHANGED settling

Settles(s) ==
    /\ Settled /\ s \in settling /\ ending[s] = "over"
    /\ settling' = settling \ {s}
    /\ Resolved(Now, s)
    /\ UNCHANGED recorder

Background ==
    \/ /\ \/ BootAnswers \/ BootFails \/ Resume
          \/ \E s \in Starts : Gated(s) \/ (Settled /\ HostRefuses(s))
          \/ \E r \in Recordings : Settled /\ Host(r)
       /\ Follows
    \/ \E s \in Starts : Opens(s) \/ Settles(s)

\* The button, the toggle, the cancel chord, and a capture that ends on its own.
Elsewhere ==
    /\ disposal = NotDisposed /\ UNCHANGED <<talk, hands, seen>>
    /\ \/ \E s \in Starts : ToggleStarts(s)
       \/ AskStop \/ AskCancel

TalkNext ==
    \/ PressUnlocks \/ PressLocks \/ Press \/ LetGo
    \/ WindowPasses \/ HeldStopRuns \/ CapFires
    \/ Dispose \/ Disposed
    \/ Background /\ UNCHANGED <<hands, seen>>
    \/ Elsewhere

\* Promises resolve and the timer of the held stop comes; that the cap fires, or that
\* anybody does anything, is not assumed.
TalkSpec ==
    /\ TalkInit /\ [][TalkNext]_vars
    /\ WF_vars(Resume /\ TalkNext)
    /\ SF_vars(Background /\ TalkNext)
    /\ WF_vars(WindowPasses) /\ WF_vars(HeldStopRuns)

------------------------------------------------------------------------
(* Properties. *)

TalkSessions ==
    [id : Starts, rec : {None} \cup Starts, stopRequested : BOOLEAN, lockedOpen : BOOLEAN]

TalkTypeOK ==
    /\ RecorderTypeOK
    /\ session \in {None} \cup TalkSessions /\ cap \in {None, "hold", "locked"}
    /\ (cap # None => session # None /\ session.rec # None)
    /\ pendingStart \in {None} \cup Starts
    /\ settling \cup locking \cup pressed \subseteq Starts
    /\ {locked, heldStop} \subseteq BOOLEAN /\ window \in {"none", "open", "past"}
    /\ disposal.at \in {"no", "start", "stop", "gone"}

\* push-to-talk.ts:12-16 and 30-33 nothing push-to-talk started is stuck on: its
\* session holds it under the right fuse, or its stop is on its way.
NeverStuckOn ==
    \A s \in pressed :
        current = s =>
            \/ session # None /\ session.rec = s /\ cap = FuseOf(session)
            \/ Stop(s) \in ToSet(waiting)

\* push-to-talk.ts:18-20 a stop takes the recording it was meant for, whoever else
\* starts, stops and cancels.
StopsWhatItMeant ==
    boot = "yes" /\ waiting # <<>> /\ Head(waiting).op = "stop" =>
        current \in {None, Head(waiting).of}

\* push-to-talk.ts:21-23 a release is honored, also one during the startup: the
\* recording of that press ends without its fuse.
ReleaseIsHonored ==
    \A s \in Starts : (s \in released /\ current = s) ~> current # s

\* push-to-talk.ts:164-165 and hands-free.ts:227-229 an app that is disposed of leaves
\* no recording of push-to-talk on, and none that is about to be.
DisposedLeavesNothing ==
    disposal.at = "gone" =>
        \A s \in pressed :
            current # s /\ phase[s] \notin {"gate", "waiting", "opening"}

\* hands-free.ts:110-113 a press that runs the held stop itself still really starts.
LatePressStarts == \A s \in overdue : phase[s] # "refused"

------------------------------------------------------------------------
(* Why they hold. *)

\* A session holds the recording its own start opened.
HoldsItsOwn ==
    session # None /\ session.rec # None =>
        session.rec = session.id /\ phase[session.id] = "recording"

\* What is held while a stop waits is what the stop is for.
StopsAreMeant ==
    \A r \in Recordings :
        Stop(r) \in ToSet(waiting) => boot = "yes" /\ current \in {None, r}

TalkInv ==
    /\ TalkTypeOK /\ RecorderInv /\ HoldsItsOwn /\ StopsAreMeant /\ NeverStuckOn
===========================================================================
