---------------------------- MODULE GrantWatch ----------------------------
(***************************************************************************)
(* The watch on the macOS Accessibility grant: the supervisor and its loop  *)
(* (apps/desktop/src-tauri/src/keyboard/supervisor.rs, mod.rs) and the tap  *)
(* it keeps alive (mac_tap.rs), whose death tells a stale grant from a      *)
(* healthy one.  A step of the loop takes a message or an elapsed wait,     *)
(* samples the grant, decides, runs the effect and publishes the phase.     *)
(*                                                                         *)
(* A stale grant, left by an update, reads as trusted and lets no tap be    *)
(* created.  Nothing in the code ends a tap whose grant goes: it re-enables *)
(* itself until it is asked to stop.                                       *)
(***************************************************************************)
EXTENDS Naturals, Sequences

CONSTANTS
    Budget,         \* restarts before the supervisor gives up: RESTART_BACKOFF_MS
    MaxPushes,      \* bound: intents the page pushes
    MaxTurns,       \* bound: times a person turns the grant on or off
    Repushes,       \* whether the page may push the intent it pushed last (a reload does)
    Brisk           \* whether threads start, and stop when asked, within a wait

ASSUME WatchBoundsAssumption == {Budget, MaxPushes, MaxTurns} \subseteq Nat
ASSUME WatchTimingAssumption == {Repushes, Brisk} \subseteq BOOLEAN

VARIABLES
    grant,          \* what the system holds of the app's grant
    turns,
    intent,         \* what the page pushed last
    pushes,
    control,        \* the supervisor's channel
    sup,            \* struct Supervisor
    stop,           \* the flag STOP
    born,           \* watcher threads spawned, before listen()
    live            \* taps that run

outside == <<grant, turns, intent, pushes>>
threads == <<stop, born, live>>
watchVars == <<outside, control, sup, threads>>

Trusted == grant # "absent"

Dormant == [wants |-> FALSE, running |-> FALSE, attempt |-> 0, recent |-> FALSE,
            delay |-> FALSE, phase |-> "inactive"]

WatchInit ==
    /\ grant \in {"absent", "healthy", "stale"} /\ turns = 0
    /\ intent = FALSE /\ pushes = 0 /\ control = <<>>
    /\ sup = Dormant /\ stop = FALSE /\ born = 0 /\ live = 0

capability == sup.phase

------------------------------------------------------------------------
(* Outside *)

\* A person toggles the app in System Settings, or removes it and adds it anew: only the
\* latter makes a stale grant healthy.
Turn(g) ==
    /\ turns < MaxTurns /\ turns' = turns + 1
    /\ (grant = "absent") # (g = "absent") /\ grant' = g
    /\ UNCHANGED <<intent, pushes, control, sup, threads>>

Push(b) ==
    /\ pushes < MaxPushes /\ pushes' = pushes + 1
    /\ Repushes \/ b # intent
    /\ intent' = b /\ control' = Append(control, [is |-> "autoPaste", on |-> b])
    /\ UNCHANGED <<grant, turns, sup, threads>>

------------------------------------------------------------------------
(* The supervisor *)

Nothing == UNCHANGED <<stop, born>>
SpawnTap == born' = born + 1 /\ UNCHANGED stop
StopTap == stop' = TRUE /\ UNCHANGED born

\* reconcile(): a fresh intent cancels a pending backoff.
Reconcile(b) ==
    LET s == [sup EXCEPT !.wants = b, !.attempt = 0, !.delay = FALSE]
    IN  \/ ~b /\ sup' = [s EXCEPT !.phase = "inactive"]
           /\ IF s.running THEN StopTap ELSE Nothing
        \/ b /\ ~Trusted /\ sup' = [s EXCEPT !.phase = "untrusted"] /\ Nothing
        \/ b /\ Trusted /\ sup' = [s EXCEPT !.phase = "active", !.running = TRUE]
           /\ IF s.running THEN Nothing ELSE SpawnTap

\* Mistaken: a death forgives the deaths before it.
TapStoppedForgiving ==
    LET s == [sup EXCEPT !.running = FALSE, !.attempt = 0]
    IN  /\ \/ ~s.wants /\ sup' = [s EXCEPT !.phase = "inactive"]
           \/ s.wants /\ ~Trusted /\ sup' = [s EXCEPT !.phase = "untrusted"]
           \/ s.wants /\ Trusted /\ Budget > 0
              /\ sup' = [s EXCEPT !.recent = TRUE, !.phase = "active", !.attempt = 1,
                                  !.delay = TRUE]
        /\ Nothing

\* on_tap_stopped(): restarts within the window count against the budget.
TapStopped ==
    LET s == [sup EXCEPT !.running = FALSE]
        spent == IF sup.recent THEN sup.attempt ELSE 0
    IN  /\ \/ ~s.wants /\ sup' = [s EXCEPT !.phase = "inactive"]
           \/ s.wants /\ ~Trusted /\ sup' = [s EXCEPT !.phase = "untrusted", !.attempt = 0]
           \/ /\ s.wants /\ Trusted
              /\ sup' = [s EXCEPT !.recent = TRUE,
                           !.phase = IF spent >= Budget THEN "broken" ELSE "active",
                           !.attempt = IF spent >= Budget THEN spent ELSE spent + 1,
                           !.delay = spent < Budget]
        /\ Nothing

Handle ==
    /\ control # <<>> /\ control' = Tail(control)
    /\ LET message == Head(control)
       IN  \/ message.is = "tapStopped" /\ TapStopped
           \/ message.is = "autoPaste" /\ (Brisk => born = 0) /\ Reconcile(message.on)
    /\ UNCHANGED <<outside, live>>

\* next_timeout()
Waits == sup.delay \/ (sup.wants /\ sup.phase \in {"untrusted", "broken"})

\* on_timeout(): a restart, or a look at the grant.
Timeout ==
    /\ Waits /\ control = <<>> /\ (Brisk => born = 0 /\ (stop => live = 0))
    /\ \/ sup.delay
          /\ sup' = [sup EXCEPT !.delay = FALSE, !.running = TRUE] /\ SpawnTap
       \/ /\ ~sup.delay /\ Trusted /\ sup.phase = "untrusted" /\ SpawnTap
          /\ sup' = [sup EXCEPT !.running = TRUE, !.attempt = 0, !.phase = "active"]
       \/ /\ ~sup.delay /\ ~Trusted /\ sup.phase = "broken" /\ Nothing
          /\ sup' = [sup EXCEPT !.attempt = 0, !.phase = "untrusted"]
    /\ UNCHANGED <<outside, control, live>>

\* RESET_WINDOW_MS after the last death, which is longer than any backoff.
WindowLapses ==
    /\ sup.recent /\ ~sup.delay /\ born = 0 /\ control = <<>>
    /\ sup' = [sup EXCEPT !.recent = FALSE]
    /\ UNCHANGED <<outside, control, threads>>

------------------------------------------------------------------------
(* The tap's thread *)

TapStops == control' = Append(control, [is |-> "tapStopped"])

\* listen() as far as its loop.
Listen ==
    /\ born > 0 /\ born' = born - 1 /\ stop' = FALSE
    /\ IF grant = "healthy" THEN live' = live + 1 /\ UNCHANGED control
                            ELSE TapStops /\ UNCHANGED live
    /\ UNCHANGED <<outside, sup>>

Exits ==
    /\ live > 0 /\ stop
    /\ live' = live - 1 /\ TapStops
    /\ UNCHANGED <<outside, sup, stop, born>>

WatchNext ==
    \/ \E g \in {"absent", "healthy", "stale"} : Turn(g)
    \/ \E b \in BOOLEAN : Push(b)
    \/ Handle \/ Timeout \/ WindowLapses \/ Listen \/ Exits

\* The supervisor's loop and the threads run, and waits elapse.
WatchFairness == WF_watchVars(Handle \/ Timeout \/ Listen \/ Exits)

WatchSpec == WatchInit /\ [][WatchNext]_watchVars /\ WatchFairness

------------------------------------------------------------------------
(* Properties. *)

Supervisors ==
    [wants : BOOLEAN, running : BOOLEAN, attempt : 0 .. Budget, recent : BOOLEAN,
     delay : BOOLEAN, phase : {"inactive", "untrusted", "active", "broken"}]

Messages == [is : {"autoPaste"}, on : BOOLEAN] \cup [is : {"tapStopped"}]

WatchTypeOK ==
    /\ sup \in Supervisors /\ (sup.delay => sup.wants /\ ~sup.running)
    /\ control \in Seq(Messages) /\ {born, live} \subseteq Nat
    /\ {intent, stop} \subseteq BOOLEAN

Dying == \E i \in DOMAIN control : control[i].is = "tapStopped"

\* event.rs:29-30 pasting is offered only while a tap stands for the grant: one that
\* runs, is being started, or whose end is on its way to the supervisor.
ActiveIsWatched == capability = "active" => born + live > 0 \/ sup.delay \/ Dying

\* mod.rs:145-147, supervisor.rs:75-77 exactly one tap is ever live.
OneTap == born + live <= 1

\* event.rs:23-25 once nothing needs the grant and all is told, no tap runs.
NoTapUnasked == ~sup.wants /\ control = <<>> /\ ~stop => born + live = 0

\* supervisor.rs:289-294 a grant that stays stale while pasting is wanted, with no tap left
\* from before, is found out.
StaleIsCaught ==
    <>[](grant = "stale" /\ intent /\ live = 0) => <>[](capability = "broken")

\* supervisor.rs:120-132 a grant given while it is missed is noticed.
GrantIsNoticed ==
    <>[](grant = "healthy" /\ intent) /\ []<>(capability = "untrusted")
        => []<>(capability = "active")

------------------------------------------------------------------------
(* Why they hold. *)

\* The supervisor says `active` while it believes in a tap, which is there or whose end is
\* on its way, or has a restart due.
StandsForTap ==
    /\ capability = "active" => sup.running \/ sup.delay
    /\ sup.running => born + live > 0 \/ Dying

\* What the page pushed and the supervisor has not read: each differs from the one before it,
\* the first from what the supervisor has, and the last is what the page wants.
Tells(queue, i) == queue[i].is = "autoPaste"
Alternating(queue, wants, last) ==
    /\ \A i \in DOMAIN queue :
          Tells(queue, i) /\ (\A k \in 1 .. i - 1 : ~Tells(queue, k)) => queue[i].on # wants
    /\ \A i, j \in DOMAIN queue :
          i < j /\ Tells(queue, i) /\ Tells(queue, j) /\ (\A k \in i + 1 .. j - 1 : ~Tells(queue, k))
              => queue[i].on # queue[j].on
    /\ \A i \in DOMAIN queue :
          Tells(queue, i) /\ (\A k \in i + 1 .. Len(queue) : ~Tells(queue, k)) => queue[i].on = last
    /\ (\A i \in DOMAIN queue : ~Tells(queue, i)) => last = wants

\* One tap, or the one message of its end; the supervisor believes in it until it reads that.
OneWatcher ==
    /\ OneTap
    /\ \A i, j \in DOMAIN control : ~Tells(control, i) /\ ~Tells(control, j) => i = j
    /\ Dying => born + live = 0
    /\ born + live > 0 \/ Dying => sup.running

\* A tap that is not wanted, or that a new look at the grant would double, was asked to stop.
AskedToStop ==
    /\ ~sup.wants \/ sup.phase = "untrusted" => born = 0 /\ (live > 0 => stop)
    /\ sup.phase = "broken" => ~sup.running
    /\ sup.delay => sup.phase = "active"

WatchInv ==
    /\ WatchTypeOK /\ StandsForTap
    /\ Brisk /\ ~Repushes => Alternating(control, sup.wants, intent) /\ OneWatcher /\ AskedToStop
===========================================================================
