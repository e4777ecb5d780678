---------------------------- MODULE ModelCache ----------------------------
(***************************************************************************)
(* The one local transcription model a host keeps in memory:                *)
(* apps/desktop/src-tauri/src/transcription/model_cache.rs, with the        *)
(* settings it reads (settings.rs) and the files it loads (catalog.rs).     *)
(*                                                                         *)
(* A call is a thread of the blocking pool.  `lock` is the mutex around the *)
(* resident model, held while a model loads and while it runs.  The file of *)
(* a model is named by its version: 0 is no file, and two versions differ   *)
(* in length or modification time, which is what the code fingerprints.     *)
(***************************************************************************)
EXTENDS Naturals, FiniteSets

CONSTANTS
    Models,
    Calls,
    Policies,       \* the unload policies a person may choose
    MaxVersions,    \* bound: files that ever appear in the shared cache
    Nothing

ASSUME NothingAssumption ==
    Nothing \notin Models \cup Calls \cup [model : Models, identity : Nat, bytes : Nat]
ASSUME PoliciesAssumption == Policies \subseteq {"never", "immediately", "timed"}
ASSUME VersionsAssumption == MaxVersions \in Nat \ {0}

Versions == 0 .. MaxVersions

VARIABLES
    disk,           \* the shared Hugging Face cache
    version,        \* the newest file's
    active,         \* Stored.active_model_id
    policy,         \* Stored.unload_policy
    resident,       \* ModelCache.cached
    lock,           \* who holds its mutex
    call,           \* each call: where it is, and what it resolved
    seen            \* history: files of the model a call resolved, since it did

files == <<disk, version>>
settings == <<active, policy>>
cache == <<resident, lock, call>>
cacheVars == <<files, settings, cache, seen>>

Resting == [at |-> "idle", want |-> Nothing, identity |-> 0]
Loaded(m, identity, bytes) == [model |-> m, identity |-> identity, bytes |-> bytes]

CacheInit ==
    /\ version = 1 /\ disk \in [Models -> 0 .. version]
    /\ active = Nothing /\ policy \in Policies
    /\ resident = Nothing /\ lock = Nothing
    /\ call = [c \in Calls |-> Resting] /\ seen = [c \in Calls |-> {}]

Busy(c) == call[c].at # "idle"
CallGoes(c, at) == call' = [call EXCEPT ![c].at = at]

\* The files change: whoever has resolved a model sees what becomes of its own.
Files(after) ==
    /\ disk' = after
    /\ seen' = [c \in Calls |-> IF Busy(c) THEN seen[c] \cup {after[call[c].want]} ELSE {}]

------------------------------------------------------------------------
(* transcribe() and prewarm() *)

\* resolve_active() finds the active model's file: no lock is held.  A call without one
\* answers at once and changes nothing.
Resolve(c) ==
    /\ ~Busy(c) /\ active # Nothing /\ disk[active] # 0
    /\ call' = [call EXCEPT ![c] = [Resting EXCEPT !.at = "waiting", !.want = active]]
    /\ seen' = [seen EXCEPT ![c] = {disk[active]}]
    /\ UNCHANGED <<files, settings, resident, lock>>

\* What is resident is the model, and its file is still the one it was loaded from.
Fits(m) ==
    resident # Nothing /\ resident.model = m /\ disk[m] # 0 /\ resident.identity = disk[m]

\* The end of prewarm(), and of a call that failed: the guard is dropped.
Leaves(c) == lock' = Nothing /\ call' = [call EXCEPT ![c] = Resting]

\* With its model resident prewarm() is over, and transcribe() keeps the guard and runs:
\* nothing before tells the two apart.
Ready(c) == Leaves(c) \/ (lock' = c /\ CallGoes(c, "running"))

Reuse(c) ==
    /\ call[c].at = "waiting" /\ lock = Nothing /\ Fits(call[c].want)
    /\ Ready(c)
    /\ UNCHANGED <<files, settings, resident, seen>>

\* The old model goes before the new one is loaded.
BeginLoad(c) ==
    /\ call[c].at = "waiting" /\ lock = Nothing /\ ~Fits(call[c].want)
    /\ lock' = c /\ resident' = Nothing
    /\ call' = [call EXCEPT ![c].at = "loading", ![c].identity = disk[call[c].want]]
    /\ UNCHANGED <<files, settings, seen>>

\* Mistaken: the fingerprint is taken once the model is there.
LoadSucceedsNoted(c) ==
    /\ call[c].at = "loading" /\ disk[call[c].want] # 0
    /\ \E bytes \in seen[c] \ {0} :
          resident' = Loaded(call[c].want, disk[call[c].want], bytes)
    /\ Ready(c)
    /\ UNCHANGED <<files, settings, seen>>

\* The file is opened some time after it was fingerprinted.
LoadSucceeds(c) ==
    /\ call[c].at = "loading" /\ disk[call[c].want] # 0
    /\ resident' = Loaded(call[c].want, call[c].identity, disk[call[c].want])
    /\ Ready(c)
    /\ UNCHANGED <<files, settings, seen>>

LoadFails(c) ==
    /\ call[c].at = "loading" /\ Leaves(c)
    /\ UNCHANGED <<files, settings, resident, seen>>

\* The end of run_loaded(): the guard is dropped before the policy is asked.
Runs(c) ==
    /\ call[c].at = "running"
    /\ CallGoes(c, "ran") /\ lock' = Nothing
    /\ UNCHANGED <<files, settings, resident, seen>>

\* An inference that fails leaves the model resident.
RunFails(c) ==
    /\ call[c].at = "running" /\ Leaves(c)
    /\ UNCHANGED <<files, settings, resident, seen>>

\* try_unload(): a model in use stays.
Unload == resident' = IF lock = Nothing THEN Nothing ELSE resident

\* evict_if_immediate(), and the answer.
Replies(c) ==
    /\ call[c].at = "ran"
    /\ IF policy = "immediately" THEN Unload ELSE UNCHANGED resident
    /\ call' = [call EXCEPT ![c] = Resting]
    /\ UNCHANGED <<files, settings, lock, seen>>

------------------------------------------------------------------------
(* The idle watcher *)

\* tick_idle(): at any moment the last activity may be a timeout ago.
Tick ==
    /\ policy = "timed" /\ resident # Nothing /\ Unload
    /\ UNCHANGED <<files, settings, lock, call, seen>>

------------------------------------------------------------------------
(* Who else writes the shared cache: another tool that uses it.  A file it adds is for this
   host what a download that lands is (LocalModels.Lands). *)

ElsewhereRemoves(m) ==
    /\ disk[m] # 0 /\ Files([disk EXCEPT ![m] = 0])
    /\ UNCHANGED <<version, settings, cache>>

CallStep(c) ==
    \/ Reuse(c) \/ BeginLoad(c) \/ LoadSucceeds(c) \/ LoadFails(c)
    \/ Runs(c) \/ RunFails(c) \/ Replies(c)
CacheStep ==
    \/ \E c \in Calls : CallStep(c) \/ Resolve(c)
    \/ Tick

------------------------------------------------------------------------
(* Properties. *)

CallStates ==
    [at : {"idle", "waiting", "loading", "running", "ran"},
     want : Models \cup {Nothing}, identity : Versions]

CacheTypeOK ==
    /\ disk \in [Models -> 0 .. version] /\ version \in Versions
    /\ active \in Models \cup {Nothing} /\ policy \in Policies
    /\ resident \in {Nothing} \cup [model : Models, identity : Versions, bytes : Versions \ {0}]
    /\ lock \in Calls \cup {Nothing} /\ call \in [Calls -> CallStates]
    /\ seen \in [Calls -> SUBSET Versions]
    /\ \A c \in Calls :
          /\ (lock = c <=> call[c].at \in {"loading", "running"})
          /\ Busy(c) => call[c].want \in Models

\* model_cache.rs:17-22, 228-240 the model an answer names is the one that runs,
\* and on a file that was there while the call was: never on bytes that were replaced
\* behind the resident model.
NamesWhatRan ==
    \A c \in Calls : call[c].at = "running" =>
        /\ resident # Nothing /\ resident.model = call[c].want
        /\ resident.bytes \in seen[c]

------------------------------------------------------------------------
(* Why it holds. *)

\* A call has seen the file its model has now, and a fingerprint is of a file there was.
SeesItsFile ==
    \A c \in Calls :
        /\ call[c].identity <= version
        /\ Busy(c) => disk[call[c].want] \in seen[c]

\* As long as the file is the one that was fingerprinted, it is also the one that was read:
\* between the two it cannot have come back, for a new file has a new version.
Fingerprinted ==
    resident # Nothing =>
        /\ resident.identity <= version
        /\ disk[resident.model] # 0 /\ disk[resident.model] = resident.identity
           => resident.bytes = resident.identity

CacheInv == CacheTypeOK /\ SeesItsFile /\ Fingerprinted /\ NamesWhatRan
===========================================================================
