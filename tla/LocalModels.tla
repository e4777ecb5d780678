---------------------------- MODULE LocalModels ----------------------------
(***************************************************************************)
(* The administration of local models: the transfers of the Settings page   *)
(* (apps/tironian/src/lib/state/local-models.svelte.ts), the commands it     *)
(* calls (transcription/catalog.rs, transcription/mod.rs) and the downloads  *)
(* under way (download.rs), beside the transcriptions of ModelCache.         *)
(*                                                                         *)
(* Commands that are not async run on the main thread one after another, in *)
(* the order in which the page sends them: what one does is done where it is *)
(* sent.  A download runs on the async runtime and is answered later.  What  *)
(* the page reads back only to show it is left out.                         *)
(***************************************************************************)
EXTENDS ModelCache

CONSTANTS
    MaxAttempts,    \* bound: downloads ever asked for
    Prompt          \* whether a download is registered before a cancel of it arrives

ASSUME AttemptsAssumption == MaxAttempts \in Nat
ASSUME PromptAssumption == Prompt \in BOOLEAN
ASSUME NoTransferAssumption == Nothing \notin [id : Nat, cancelling : BOOLEAN]

Attempts == 1 .. MaxAttempts

VARIABLES
    transfers,      \* the map of transfers: a model's attempt, and whether it is cancelled
    attempts,       \* the counter of attempts
    attempt,        \* each run of download() or downloadAndActivate(): where it is, its
                    \* model, and whether that is known to be on the disk
    task            \* the host's task of each attempt

page == <<transfers, attempts, attempt>>
localVars == <<cacheVars, page, task>>

Unused == [at |-> "none", model |-> Nothing, there |-> FALSE]

LocalInit ==
    /\ CacheInit
    /\ attempts = 0 /\ transfers = [m \in Models |-> Nothing]
    /\ attempt = [a \in Attempts |-> Unused] /\ task = [a \in Attempts |-> "none"]

------------------------------------------------------------------------
(* What a person asks *)

\* set_active_model() and set_unload_policy(): a failure to save changes nothing.
Choose(m) == active # m /\ active' = m /\ UNCHANGED <<files, policy, cache, seen, page, task>>
SetPolicy(p) == policy # p /\ policy' = p /\ UNCHANGED <<files, active, cache, seen, page, task>>

\* clear_active_choice(), which may fail.
StandsDown(m) == active' \in IF active = m THEN {Nothing, m} ELSE {active}

\* delete_model(): a file that cannot be removed ends it before the choice is cleared.
DeleteModel(m) ==
    /\ \/ disk[m] = 0 /\ active = m /\ active' = Nothing /\ UNCHANGED <<disk, seen>>
       \/ disk[m] # 0 /\ Files([disk EXCEPT ![m] = 0]) /\ StandsDown(m)
    /\ UNCHANGED <<version, policy, cache, page, task>>

\* download() as far as its fresh scan, which is read where it is sent: a transfer of the
\* model refuses.
Download(m) ==
    /\ transfers[m] = Nothing /\ attempts < MaxAttempts
    /\ attempts' = attempts + 1
    /\ transfers' = [transfers EXCEPT ![m] = [id |-> attempts', cancelling |-> FALSE]]
    /\ attempt' = [attempt EXCEPT ![attempts'] =
                      [at |-> "checking", model |-> m, there |-> disk[m] # 0]]
    /\ UNCHANGED <<cacheVars, task>>

\* Mistaken: the registry keeps no handle to abort.
AbortsNothing(a) == UNCHANGED task

\* DownloadManager::abort(): the task is dropped, when one is registered.
Aborts(a) == task' = IF task[a] = "live" THEN [task EXCEPT ![a] = "stopped"] ELSE task

\* Mistaken: a cancelled transfer is forgotten at once.
CancelForgetting(m) ==
    /\ transfers[m] # Nothing
    /\ transfers' = [transfers EXCEPT ![m] = Nothing]
    /\ Aborts(transfers[m].id)
    /\ UNCHANGED <<cacheVars, attempts, attempt>>

Cancel(m) ==
    /\ transfers[m] # Nothing /\ ~transfers[m].cancelling
    /\ Prompt => task[transfers[m].id] # "starting"
    /\ transfers' = [transfers EXCEPT ![m].cancelling = TRUE]
    /\ Aborts(transfers[m].id)
    /\ UNCHANGED <<cacheVars, attempts, attempt>>

------------------------------------------------------------------------
(* A download *)

Finished(a) ==
    /\ attempt' = [attempt EXCEPT ![a] = [Unused EXCEPT !.at = "done"]]
    /\ task' = [task EXCEPT ![a] = "none"]
Forget(m) == transfers' = [transfers EXCEPT ![m] = Nothing]
Cancelled(m) == transfers[m] # Nothing /\ transfers[m].cancelling

\* downloadAndActivate() goes on to choose a model that is there; download() is over.
\* Nothing before tells the two apart.
ActivatesAfter(a) ==
    UNCHANGED active \/ (attempt[a].there /\ active' = attempt[a].model)

\* The scan is answered.  What is installed is not fetched, nor what was cancelled.
Stops(a) ==
    LET m == attempt[a].model
    IN  /\ attempt[a].at = "checking" /\ (attempt[a].there \/ Cancelled(m))
        /\ Forget(m) /\ Finished(a) /\ ActivatesAfter(a)
        /\ UNCHANGED <<files, policy, cache, seen, attempts>>

Asks(a) ==
    /\ attempt[a].at = "checking" /\ ~attempt[a].there
    /\ ~Cancelled(attempt[a].model)
    /\ attempt' = [attempt EXCEPT ![a].at = "transferring"]
    /\ task' = [task EXCEPT ![a] = "starting"]
    /\ UNCHANGED <<cacheVars, transfers, attempts>>

TaskGoes(a, from, to) == task[a] = from /\ task' = [task EXCEPT ![a] = to]

\* DownloadManager::run(): only now is there a handle.
Registers(a) == TaskGoes(a, "starting", "live") /\ UNCHANGED <<cacheVars, page>>

\* The file is in the shared cache whole, or not at all; one already there is reused.
Lands(a) ==
    /\ TaskGoes(a, "live", "landed")
    /\ LET m == attempt[a].model
       IN  IF disk[m] # 0 THEN UNCHANGED <<files, seen>>
           ELSE version < MaxVersions /\ version' = version + 1
                /\ Files([disk EXCEPT ![m] = version'])
    /\ UNCHANGED <<settings, cache, page>>

TransferFails(a) == TaskGoes(a, "live", "stopped") /\ UNCHANGED <<cacheVars, page>>

\* download_model() is answered: the transfer is over, and the page reads again.
Answered(a) ==
    /\ attempt[a].at = "transferring" /\ task[a] \in {"landed", "stopped"}
    /\ Forget(attempt[a].model)
    /\ attempt' = [attempt EXCEPT ![a].at = "settling", ![a].there = task[a] = "landed"]
    /\ UNCHANGED <<cacheVars, attempts, task>>

\* Those reads are answered: the end of download(), and the second verb.
Settles(a) ==
    /\ attempt[a].at = "settling" /\ Finished(a) /\ ActivatesAfter(a)
    /\ UNCHANGED <<files, policy, cache, seen, transfers, attempts>>

------------------------------------------------------------------------
Person ==
    \/ \E m \in Models : Choose(m) \/ DeleteModel(m) \/ Cancel(m) \/ Download(m)
    \/ \E p \in Policies : SetPolicy(p)
PageStep(a) == Stops(a) \/ Asks(a) \/ Answered(a) \/ Settles(a)

LocalNext ==
    \/ CacheStep /\ UNCHANGED <<page, task>>
    \/ (\E m \in Models : ElsewhereRemoves(m)) /\ UNCHANGED <<page, task>>
    \/ Person
    \/ \E a \in Attempts : PageStep(a) \/ Registers(a) \/ Lands(a) \/ TransferFails(a)

\* The page is answered, and the runtime starts tasks.  A transfer need never end: a
\* network may be silent for ever.
LocalFairness == WF_localVars(\E a \in Attempts : PageStep(a) \/ Registers(a))

LocalSpec == LocalInit /\ [][LocalNext]_localVars /\ LocalFairness

------------------------------------------------------------------------
(* Properties. *)

LocalTypeOK ==
    /\ CacheTypeOK
    /\ transfers \in [Models -> {Nothing} \cup [id : Attempts, cancelling : BOOLEAN]]
    /\ attempts \in 0 .. MaxAttempts
    /\ attempt \in [Attempts ->
          [at : {"none", "checking", "transferring", "settling", "done"},
           model : Models \cup {Nothing}, there : BOOLEAN]]
    /\ task \in [Attempts -> {"none", "starting", "live", "landed", "stopped"}]
    /\ \A a \in Attempts : (attempt[a].at = "none" <=> a > attempts)

\* local-models.svelte.ts:48-51 a cancel never lets a second download of the same file
\* begin while the first still runs.
OneTransferPerModel ==
    \A a, b \in Attempts :
        a # b /\ attempt[a].model = attempt[b].model =>
            ~(task[a] \in {"starting", "live"} /\ task[b] \in {"starting", "live"})

\* local-models.svelte.ts:208-212 a transfer someone cancelled is let go of, whatever
\* the network does.
CancelIsHeard ==
    \A m \in Models : Cancelled(m) ~> transfers[m] = Nothing

\* local-models.svelte.ts:132-133 a requested cancel is a clean stop: the model whose
\* download was cancelled is not there because of it, nor chosen.
CancelledIsNotChosen ==
    [][\A m \in Models :
          Cancelled(m) /\ transfers'[m] = Nothing
          => ~attempt'[transfers[m].id].there]_localVars

------------------------------------------------------------------------
(* Why they hold. *)

\* An attempt that has not been answered is the transfer of its model, and the transfer of a
\* model is such an attempt.  A task at work is that of one whose host was asked.
HoldsItsModel ==
    /\ \A m \in Models : transfers[m] # Nothing =>
          /\ attempt[transfers[m].id].model = m
          /\ attempt[transfers[m].id].at \in {"checking", "transferring"}
    /\ \A a \in Attempts :
          /\ attempt[a].at \in {"checking", "transferring"} =>
                /\ attempt[a].model \in Models /\ transfers[attempt[a].model] # Nothing
                /\ transfers[attempt[a].model].id = a
          /\ attempt[a].at = "settling" => attempt[a].model \in Models
          /\ task[a] \in {"starting", "live"} => attempt[a].at = "transferring"

LocalInv == LocalTypeOK /\ CacheInv /\ HoldsItsModel
===========================================================================
