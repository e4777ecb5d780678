---------------------------- MODULE BlobStaging ----------------------------
(***************************************************************************)
(* How bytes become a blob in the directory every host and its sidecar     *)
(* share: the native recorder's staging (src-tauri/src/recorder/blob.rs)    *)
(* and the sidecar's store (packages/blobs/src/bun.ts).                    *)
(*                                                                         *)
(* A writer fills a directory of its own under .staging, and one rename     *)
(* makes it the blob.  Several hosts, each with its sidecar, run over one   *)
(* directory; any of them may die at any step, and the machine may lose     *)
(* its power: what was not synced is then there, or not.                    *)
(***************************************************************************)
EXTENDS Naturals

CONSTANTS
    None,
    Hosts,          \* installations of the native host
    Pids,
    Captures,       \* native recordings, each under an id minted for it
    Puts,           \* calls of the sidecars' put, all of one id
    MaxLosses,      \* bound: losses of power
    DirectorySyncs  \* whether sync_directory does anything: not on Windows

\* What a writer's caller is told.
Answers == {"unstaged", "cancelled", "stored", "failed", "uncleaned", "exists"}

ASSUME WritersAssumption == Captures \cap Puts = {}
ASSUME NoneAssumption == None \notin Answers
ASSUME LossesAssumption == MaxLosses \in Nat
ASSUME SyncAssumption == DirectorySyncs \in BOOLEAN

Writers == Captures \cup Puts
Same(v, w) == v = w \/ {v, w} \subseteq Puts

VARIABLES
    pid,        \* the process each host runs as
    strangers,  \* pids of other live processes
    sweeping,   \* what a launching host has yet to look at
    root,       \* whether .staging/rust exists
    step,       \* how far each writer is
    owner,      \* the pid in the name of each staged directory
    dir,        \* each writer's directory
    answer,     \* what each writer's caller was told
    doomed,     \* writers whose blob somebody began to delete
    losses

vars == <<pid, strangers, sweeping, root, step, owner, dir, answer, doomed, losses>>

Absent == [at |-> "nowhere", data |-> "none", meta |-> FALSE, kept |-> {}]

Init ==
    /\ pid = [h \in Hosts |-> None] /\ strangers = {}
    /\ sweeping = [h \in Hosts |-> None] /\ root = FALSE
    /\ step = [w \in Writers |-> "idle"] /\ owner = [c \in Captures |-> None]
    /\ dir = [w \in Writers |-> Absent] /\ answer = [w \in Writers |-> None]
    /\ doomed = {} /\ losses = 0

Running == {h \in Hosts : pid[h] # None}
Alive == {pid[h] : h \in Running} \cup strangers
Staged == {c \in Captures : dir[c].at = "staged"}
Blob(w) == {v \in Writers : Same(v, w) /\ dir[v].at = "final"}

------------------------------------------------------------------------
(* A host's launch, and delete_staging_root *)

Launch(h, p) ==
    /\ pid[h] = None /\ p \notin Alive
    /\ pid' = [pid EXCEPT ![h] = p]
    /\ sweeping' = [sweeping EXCEPT ![h] = Staged]
    /\ UNCHANGED <<strangers, root, step, owner, dir, answer, doomed, losses>>

\* Mistaken: whatever a launch finds is a previous launch's.
SweepAll(h) ==
    /\ pid[h] # None /\ sweeping[h] # None
    /\ \E c \in sweeping[h] :
        /\ sweeping' = [sweeping EXCEPT ![h] = @ \ {c}]
        /\ dir' \in {dir, [dir EXCEPT ![c] = IF @.at = "staged" THEN Absent ELSE @]}
    /\ UNCHANGED <<pid, strangers, root, step, owner, answer, doomed, losses>>

\* An entry goes once its process is gone, unless removing it fails.
Sweep(h) ==
    /\ pid[h] # None /\ sweeping[h] # None
    /\ \E c \in sweeping[h] :
        /\ sweeping' = [sweeping EXCEPT ![h] = @ \ {c}]
        /\ dir' \in {dir, [dir EXCEPT ![c] =
                        IF @.at = "staged" /\ owner[c] \notin Alive THEN Absent ELSE @]}
    /\ UNCHANGED <<pid, strangers, root, step, owner, answer, doomed, losses>>

\* The staging root goes with its last entry.
SweepEnds(h) ==
    /\ sweeping[h] = {}
    /\ sweeping' = [sweeping EXCEPT ![h] = None]
    /\ root' = (root /\ Staged # {})
    /\ UNCHANGED <<pid, strangers, step, owner, dir, answer, doomed, losses>>

\* A pid is taken by, or given up by, a process that is no host.
PidReused(p) ==
    /\ p \notin {pid[h] : h \in Running}
    /\ strangers' = IF p \in strangers THEN strangers \ {p} ELSE strangers \cup {p}
    /\ UNCHANGED <<pid, sweeping, root, step, owner, dir, answer, doomed, losses>>

------------------------------------------------------------------------
(* StagedBlob *)

Goes(w, from, to) ==
    /\ step[w] = from /\ step' = [step EXCEPT ![w] = to]
    /\ UNCHANGED <<pid, strangers, sweeping, losses>>

\* stage(): the staging root is there, then the recording's directory in it.
Prepare(h, c) ==
    /\ pid[h] # None /\ sweeping[h] = None
    /\ Goes(c, "idle", "preparing")
    /\ root' = TRUE
    /\ owner' = [owner EXCEPT ![c] = pid[h]]
    /\ UNCHANGED <<dir, answer, doomed>>

Stage(c) ==
    /\ IF root
       THEN /\ Goes(c, "preparing", "capturing")
            /\ dir' = [dir EXCEPT ![c] = [@ EXCEPT !.at = "staged", !.data = "part"]]
            /\ UNCHANGED answer
       ELSE /\ Goes(c, "preparing", "over")
            /\ answer' = [answer EXCEPT ![c] = "unstaged"]
            /\ UNCHANGED dir
    /\ UNCHANGED <<root, owner, doomed>>

\* The recorder has written all it will.
Finalize(c) ==
    /\ Goes(c, "capturing", "finalized")
    /\ dir' = [dir EXCEPT ![c].data = "all"]
    /\ UNCHANGED <<root, owner, answer, doomed>>

\* discard(): a directory that cannot be deleted is left for a sweep.
Discard(c) ==
    /\ Goes(c, "capturing", "over")
    /\ dir' \in {dir, [dir EXCEPT ![c] = Absent]}
    /\ answer' = [answer EXCEPT ![c] = "cancelled"]
    /\ UNCHANGED <<root, owner, doomed>>

------------------------------------------------------------------------
(* publish(): the durability ladder *)

Climbs(c, from, to, held) ==
    /\ Goes(c, from, to)
    /\ dir' = [dir EXCEPT ![c].kept = @ \cup held]
    /\ UNCHANGED <<root, owner, answer, doomed>>

OnDirectory(names) == IF DirectorySyncs THEN names ELSE {}

\* Mistaken: the data is not waited for.
SyncDataLazily(c) == Climbs(c, "finalized", "dataSynced", {})

SyncData(c) == Climbs(c, "finalized", "dataSynced", {"data"})

Describe(c) ==
    /\ Goes(c, "dataSynced", "described")
    /\ dir' = [dir EXCEPT ![c].meta = TRUE]
    /\ UNCHANGED <<root, owner, answer, doomed>>

SyncMetadata(c) == Climbs(c, "described", "metadataSynced", {"meta"})
SyncNames(c) == Climbs(c, "metadataSynced", "namesSynced", OnDirectory({"names"}))

Rename(c) ==
    /\ Goes(c, "namesSynced", "renamed")
    /\ dir' = [dir EXCEPT ![c].at = "final"]
    /\ UNCHANGED <<root, owner, answer, doomed>>

\* Mistaken: the blob is announced once it has its name.
SyncRootLazily(c) ==
    /\ Goes(c, "renamed", "over")
    /\ answer' = [answer EXCEPT ![c] = "stored"]
    /\ UNCHANGED <<root, owner, dir, doomed>>

SyncRoot(c) ==
    /\ Goes(c, "renamed", "over")
    /\ dir' = [dir EXCEPT ![c].kept = @ \cup OnDirectory({"place"})]
    /\ answer' = [answer EXCEPT ![c] = "stored"]
    /\ UNCHANGED <<root, owner, doomed>>

Rungs == {"finalized", "dataSynced", "described", "metadataSynced", "namesSynced", "renamed"}

\* A rung fails: the directory goes, wherever it is by then; the error says so when
\* that fails too.
PublishFails(c) ==
    /\ \E rung \in Rungs : Goes(c, rung, "over")
    /\ \/ dir' = [dir EXCEPT ![c] = Absent] /\ answer' = [answer EXCEPT ![c] = "failed"]
       \/ UNCHANGED dir /\ answer' = [answer EXCEPT ![c] = "uncleaned"]
    /\ UNCHANGED <<root, owner, doomed>>

Publish(c) ==
    \/ SyncData(c) \/ Describe(c) \/ SyncMetadata(c) \/ SyncNames(c)
    \/ Rename(c) \/ SyncRoot(c) \/ PublishFails(c)

------------------------------------------------------------------------
(* The sidecar's putData and delete *)

PutBegins(w) ==
    /\ IF Blob(w) # {}
       THEN /\ Goes(w, "idle", "over")
            /\ answer' = [answer EXCEPT ![w] = "exists"]
            /\ UNCHANGED dir
       ELSE /\ Goes(w, "idle", "writing")
            /\ dir' = [dir EXCEPT ![w] = [@ EXCEPT !.at = "staged", !.data = "part"]]
            /\ UNCHANGED answer
    /\ UNCHANGED <<root, owner, doomed>>

\* The body, its size, and the metadata that states it.
PutWrites(w) ==
    /\ Goes(w, "writing", "written")
    /\ dir' = [dir EXCEPT ![w].data = "all", ![w].meta = TRUE]
    /\ UNCHANGED <<root, owner, answer, doomed>>

\* A rename onto a directory that holds anything fails.
PutRenames(w) ==
    /\ Blob(w) = {}
    /\ Goes(w, "written", "over")
    /\ dir' = [dir EXCEPT ![w].at = "final"]
    /\ answer' = [answer EXCEPT ![w] = "stored"]
    /\ UNCHANGED <<root, owner, doomed>>

\* Any of its calls fails; then it looks whether the blob is there, which may fail too.
PutFails(w) ==
    /\ \E at \in {"idle", "writing", "written"} : Goes(w, at, "over")
    /\ dir' \in {dir, [dir EXCEPT ![w] = Absent]}
    /\ \E said \in {"failed"} \cup (IF Blob(w) = {} THEN {} ELSE {"exists"}) :
          answer' = [answer EXCEPT ![w] = said]
    /\ UNCHANGED <<root, owner, doomed>>

\* delete(): the files go one by one, and the directory with the last; it may fail, or
\* its process die, between any two.
Delete(w) ==
    /\ dir[w].at = "final" /\ step[w] = "over"
    /\ doomed' = doomed \cup {w}
    /\ dir' \in {[dir EXCEPT ![w] = Absent], [dir EXCEPT ![w].data = "none"],
                 [dir EXCEPT ![w].meta = FALSE]}
    /\ UNCHANGED <<pid, strangers, sweeping, root, step, owner, answer, losses>>

------------------------------------------------------------------------
(* Faults *)

InFlight == {"preparing", "capturing", "writing", "written"} \cup Rungs
Stopped(dead) == step' = [w \in Writers |-> IF w \in dead /\ step[w] \in InFlight THEN "dead" ELSE step[w]]

HostDies(h) ==
    /\ pid[h] # None
    /\ pid' = [pid EXCEPT ![h] = None] /\ sweeping' = [sweeping EXCEPT ![h] = None]
    /\ Stopped({c \in Captures : owner[c] = pid[h]})
    /\ UNCHANGED <<strangers, root, owner, dir, answer, doomed, losses>>

SidecarDies(w) ==
    /\ step[w] \in InFlight
    /\ Stopped({w})
    /\ UNCHANGED <<pid, strangers, sweeping, root, owner, dir, answer, doomed, losses>>

\* What is found of a directory: a synced file is whole, and there once its directory
\* was synced; a rename is kept once the root was.
Found(d) ==
    CASE d.at = "nowhere" -> {d}
      [] d.at = "staged" -> {d, Absent}
      [] d.at = "final" ->
            [at : {"final"},
             data : IF {"data", "names"} \subseteq d.kept THEN {d.data} ELSE {"none", "part", "all"},
             meta : IF {"meta", "names"} \subseteq d.kept THEN {d.meta} ELSE BOOLEAN,
             kept : {d.kept}]
            \cup IF "place" \in d.kept THEN {} ELSE {[d EXCEPT !.at = "staged"]}

PowerLoss ==
    /\ losses < MaxLosses /\ losses' = losses + 1
    /\ pid' = [h \in Hosts |-> None] /\ strangers' = {}
    /\ sweeping' = [h \in Hosts |-> None]
    /\ Stopped(Writers)
    /\ dir' \in [Writers -> UNION {Found(dir[w]) : w \in Writers}]
    /\ \A w \in Writers : dir'[w] \in Found(dir[w])
    /\ root' \in {root, \E c \in Captures : dir'[c].at = "staged"}
    /\ UNCHANGED <<owner, answer, doomed>>

------------------------------------------------------------------------
Next ==
    \/ \E h \in Hosts : \/ \E p \in Pids : Launch(h, p)
                        \/ Sweep(h) \/ SweepEnds(h) \/ HostDies(h)
                        \/ \E c \in Captures : Prepare(h, c)
    \/ \E p \in Pids : PidReused(p)
    \/ \E c \in Captures : Stage(c) \/ Finalize(c) \/ Discard(c) \/ Publish(c)
    \/ \E w \in Puts : PutBegins(w) \/ PutWrites(w) \/ PutRenames(w) \/ PutFails(w) \/ SidecarDies(w)
    \/ \E w \in Writers : Delete(w)
    \/ PowerLoss

Spec == Init /\ [][Next]_vars

------------------------------------------------------------------------
(* Properties. *)

Sweeps == {None} \cup SUBSET Captures
Steps == InFlight \cup {"idle", "over", "dead"}
Dirs == [at : {"nowhere", "staged", "final"}, data : {"none", "part", "all"}, meta : BOOLEAN,
         kept : SUBSET {"data", "meta", "names", "place"}]

TypeOK ==
    /\ pid \in [Hosts -> Pids \cup {None}] /\ strangers \subseteq Pids
    /\ sweeping \in [Hosts -> Sweeps] /\ root \in BOOLEAN
    /\ step \in [Writers -> Steps] /\ owner \in [Captures -> Pids \cup {None}]
    /\ dir \in [Writers -> Dirs] /\ answer \in [Writers -> Answers \cup {None}]
    /\ doomed \subseteq Writers /\ losses \in 0 .. MaxLosses

\* The sidecar syncs nothing: of its blobs nothing is said past a loss of power.
Lasting(w) == w \in Captures \/ losses = 0

\* blob.rs:16-21, bun.ts:46-48 what has a blob's name is the whole of one, its bytes
\* and the metadata that states their size, unless somebody is deleting it: no crash
\* and no loss of power shows a part.
WholeWhenVisible ==
    \A w \in Writers \ doomed :
        dir[w].at = "final" /\ Lasting(w) => dir[w].data = "all" /\ dir[w].meta

\* blob.rs:202-210, blob-store.ts:67-74 a caller that was told its bytes are stored finds
\* them, never replaced by another's, until somebody deletes them; one that was told
\* they are not finds nothing.
AnswersAreTrue ==
    \A w \in Writers \ doomed :
        /\ answer[w] = "stored" /\ Lasting(w) => Blob(w) = {w}
        /\ answer[w] \in {"unstaged", "cancelled", "failed", "exists"} => w \notin Blob(w)

\* blob.rs:301-310 no launch takes the audio of a recording that another live process is
\* still making, whatever pids were used before.
SweepSparesTheLiving ==
    \A c \in Captures : step[c] \in Rungs \cup {"capturing"} => dir[c].at # "nowhere"

\* A recording is refused its directory only by the disk.
StagingRootStays == \A c \in Captures : answer[c] # "unstaged"

------------------------------------------------------------------------
(* Why they hold. *)

\* The directories of a machine that syncs them, or has not lost its power yet.
Durable == DirectorySyncs \/ losses = 0

\* A recording in flight has its host: the sweep finds its pid alive.
HasItsHost ==
    \A c \in Captures : step[c] \in {"preparing", "capturing"} \cup Rungs =>
        \E h \in Hosts : pid[h] = owner[c] /\ pid[h] # None

\* Where the directory of a recording is at each step.
CaptureInPlace ==
    \A c \in Captures :
        /\ step[c] \in {"idle", "preparing"} => dir[c].at = "nowhere"
        /\ step[c] \in ({"capturing"} \cup Rungs) \ {"renamed"} => dir[c].at = "staged"
        /\ step[c] = "renamed" => dir[c].at = "final"
        /\ step[c] \notin {"over", "dead", "renamed"} => dir[c].at # "final"

\* What each rung of the ladder leaves behind it.
Climbed ==
    \A c \in Captures :
        /\ step[c] \in Rungs => dir[c].data = "all"
        /\ step[c] \in Rungs \ {"finalized"} => "data" \in dir[c].kept
        /\ step[c] \in Rungs \ {"finalized", "dataSynced"} => dir[c].meta
        /\ step[c] \in {"metadataSynced", "namesSynced", "renamed"} => "meta" \in dir[c].kept
        /\ step[c] \in {"namesSynced", "renamed"} /\ DirectorySyncs => "names" \in dir[c].kept

\* A recording that has its blob's name is whole, and lastingly so.
CaptureIsWhole ==
    \A c \in Captures \ doomed : dir[c].at = "final" =>
        /\ DirectorySyncs => {"data", "meta", "names"} \subseteq dir[c].kept
        /\ Durable => dir[c].data = "all" /\ dir[c].meta

\* What the caller of a recording was told.
CaptureAnswers ==
    \A c \in Captures :
        /\ answer[c] # None => step[c] = "over"
        /\ answer[c] = "stored" /\ c \notin doomed =>
              /\ DirectorySyncs => "place" \in dir[c].kept
              /\ Durable => dir[c].at = "final"
        /\ answer[c] \in {"unstaged", "cancelled", "failed", "exists"} => dir[c].at # "final"

\* The puts: one of them has the name, and until a loss of power it is whole.
PutInPlace ==
    \A w \in Puts :
        /\ step[w] = "idle" => dir[w].at = "nowhere"
        /\ step[w] \in {"idle", "writing", "written"} => dir[w].at # "final"
        /\ step[w] = "written" => dir[w].data = "all" /\ dir[w].meta
        /\ answer[w] # None => step[w] = "over"
        /\ answer[w] \in {"unstaged", "cancelled", "failed", "exists"} => dir[w].at # "final"

OnePut == \A v, w \in Puts : dir[v].at = "final" /\ dir[w].at = "final" => v = w

PutIsWhole ==
    \A w \in Puts \ doomed : losses = 0 =>
        /\ dir[w].at = "final" => dir[w].data = "all" /\ dir[w].meta
        /\ answer[w] = "stored" => dir[w].at = "final"

IInv ==
    /\ TypeOK /\ HasItsHost /\ CaptureInPlace /\ Climbed /\ CaptureIsWhole
    /\ CaptureAnswers /\ PutInPlace /\ OnePut /\ PutIsWhole
============================================================================
