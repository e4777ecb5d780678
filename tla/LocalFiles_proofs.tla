------------------------- MODULE LocalFiles_proofs -------------------------
(***************************************************************************)
(* What the files of this machine guarantee.  The local models: for every   *)
(* number of models, calls and downloads, an answer names the model that    *)
(* ran, and a file is fetched by one transfer at a time.  The directory of  *)
(* blobs: for every number of hosts, pids, recordings, puts and losses of   *)
(* power; where a directory can be synced the guarantees are lasting,       *)
(* elsewhere they hold until power is lost.                                 *)
(***************************************************************************)
EXTENDS LocalModels, BlobStaging, TLAPS

------------------------------------------------------------------------
(* The resident model. *)

\* A call's fields, and that changing one leaves a call.
LEMMA CallFields ==
  ASSUME NEW r \in CallStates
  PROVE  /\ r.at \in {"idle", "waiting", "loading", "running", "ran"}
         /\ r.want \in Models \cup {Nothing} /\ r.identity \in Versions
         /\ \A x \in {"idle", "waiting", "loading", "running", "ran"} :
               [r EXCEPT !.at = x] \in CallStates
         /\ \A x \in Versions : [r EXCEPT !.at = "loading", !.identity = x] \in CallStates
  BY DEF CallStates

\* A call that rests is one.
LEMMA RestingTyped == Resting \in CallStates /\ Resting.at = "idle"
  BY VersionsAssumption DEF Resting, CallStates, Versions

\* What is loaded is a resident model, and never nothing.
LEMMA LoadedTyped ==
  ASSUME NEW m \in Models, NEW i \in Versions, NEW b \in Versions \ {0}
  PROVE  /\ Loaded(m, i, b) \in [model : Models, identity : Versions, bytes : Versions \ {0}]
         /\ Loaded(m, i, b) # Nothing
         /\ Loaded(m, i, b).model = m /\ Loaded(m, i, b).identity = i
         /\ Loaded(m, i, b).bytes = b
<1>1. Loaded(m, i, b) \in [model : Models, identity : Nat, bytes : Nat]
  BY VersionsAssumption DEF Loaded, Versions
<1> QED BY <1>1, NothingAssumption DEF Loaded

\* A version on the disk is one the code knows.
LEMMA DiskTyped ==
  ASSUME CacheTypeOK, NEW m \in Models
  PROVE  disk[m] \in Versions /\ disk[m] <= version /\ disk[m] \in Nat /\ version \in Nat
  BY VersionsAssumption DEF CacheTypeOK, Versions

\* What CacheInv says of one call, when the others' part is as it was.
CallInv(c) ==
    /\ call[c] \in CallStates /\ seen[c] \in SUBSET Versions
    /\ (lock = c <=> call[c].at \in {"loading", "running"})
    /\ (Busy(c) => call[c].want \in Models)
    /\ call[c].identity <= version
    /\ (Busy(c) => disk[call[c].want] \in seen[c])
    /\ (call[c].at = "running" =>
          /\ resident # Nothing /\ resident.model = call[c].want
          /\ resident.bytes \in seen[c])

\* The same, of the model that is resident and the files.
ResidentInv ==
    /\ disk \in [Models -> 0 .. version] /\ version \in Versions
    /\ active \in Models \cup {Nothing} /\ policy \in Policies
    /\ resident \in {Nothing} \cup [model : Models, identity : Versions, bytes : Versions \ {0}]
    /\ lock \in Calls \cup {Nothing}
    /\ Fingerprinted

CacheParted ==
    /\ ResidentInv /\ \A c \in Calls : CallInv(c)
    /\ call \in [Calls -> CallStates] /\ seen \in [Calls -> SUBSET Versions]

\* CacheInv, call by call.
LEMMA CacheParts == CacheInv <=> CacheParted
<1> USE DEF CacheParted
<1>1. ASSUME CacheInv
      PROVE  /\ ResidentInv /\ \A c \in Calls : CallInv(c)
             /\ call \in [Calls -> CallStates] /\ seen \in [Calls -> SUBSET Versions]
  <2>1. ResidentInv
    BY <1>1 DEF CacheInv, CacheTypeOK, ResidentInv
  <2>2. call \in [Calls -> CallStates] /\ seen \in [Calls -> SUBSET Versions]
    BY <1>1 DEF CacheInv, CacheTypeOK
  <2>3. ASSUME NEW c \in Calls PROVE CallInv(c)
    <3>1. call[c] \in CallStates /\ seen[c] \in SUBSET Versions
      BY <2>2
    <3> HIDE <2>2
    <3>2. /\ (lock = c <=> call[c].at \in {"loading", "running"})
          /\ (Busy(c) => call[c].want \in Models)
      BY <1>1 DEF CacheInv, CacheTypeOK
    <3>3. /\ call[c].identity <= version
          /\ (Busy(c) => disk[call[c].want] \in seen[c])
      BY <1>1 DEF CacheInv, SeesItsFile
    <3>4. (call[c].at = "running" =>
             /\ resident # Nothing /\ resident.model = call[c].want
             /\ resident.bytes \in seen[c])
      BY <1>1 DEF CacheInv, NamesWhatRan
    <3> QED BY <3>1, <3>2, <3>3, <3>4 DEF CallInv
  <2> QED BY <2>1, <2>2, <2>3
<1>2. ASSUME ResidentInv, \A c \in Calls : CallInv(c),
             call \in [Calls -> CallStates], seen \in [Calls -> SUBSET Versions]
      PROVE  CacheInv
  <2>1. CacheTypeOK
    BY <1>2 DEF ResidentInv, CallInv, CacheTypeOK
  <2>2. SeesItsFile /\ NamesWhatRan
    BY <1>2 DEF CallInv, SeesItsFile, NamesWhatRan
  <2> QED BY <1>2, <2>1, <2>2 DEF CacheInv, ResidentInv
<1> QED BY <1>1, <1>2

\* A step of another call leaves a call as it was: it neither holds the lock nor gives it
\* away, and the resident model stays while this one holds it.
LEMMA OthersStay ==
  ASSUME NEW d \in Calls, CallInv(d), call'[d] = call[d], seen'[d] = seen[d],
         UNCHANGED files, (lock' = d <=> lock = d), lock = d => resident' = resident
  PROVE  CallInv(d)'
<1>1. call[d].at = "running" => resident' = resident
  BY DEF CallInv
<1> QED BY <1>1 DEF CallInv, Busy, files

\* What no step of a call touches, and what is left to show of the rest.
LEMMA CallStepKeeps ==
  ASSUME CacheParted, NEW c \in Calls, NEW r \in CallStates,
         call' = [call EXCEPT ![c] = r], seen' \in [Calls -> SUBSET Versions],
         \A d \in Calls \ {c} : seen'[d] = seen[d], UNCHANGED <<files, settings>>,
         lock' \in Calls \cup {Nothing},
         \A d \in Calls \ {c} : lock' = d <=> lock = d,
         \A d \in Calls \ {c} : lock = d => resident' = resident,
         resident' \in {Nothing} \cup
             [model : Models, identity : Versions, bytes : Versions \ {0}],
         Fingerprinted', CallInv(c)'
  PROVE  CacheParted'
<1>1. ResidentInv'
  BY DEF CacheParted, ResidentInv, files, settings
<1>2. call' \in [Calls -> CallStates] /\ \A d \in Calls \ {c} : call'[d] = call[d]
  BY DEF CacheParted
<1>3. ASSUME NEW d \in Calls PROVE CallInv(d)'
  <2>1. CASE d = c
    BY <2>1
  <2>2. CASE d # c
    <3>1. d \in Calls \ {c} /\ CallInv(d)
      BY <2>2 DEF CacheParted
    <3>2. call'[d] = call[d] /\ seen'[d] = seen[d]
      BY <1>2, <3>1
    <3>3. (lock' = d <=> lock = d) /\ (lock = d => resident' = resident)
      BY <3>1
    <3>4. UNCHANGED files
      OBVIOUS
    <3> HIDE <1>1, <1>2
    <3> QED BY <3>1, <3>2, <3>3, <3>4, OthersStay
  <2> QED BY <2>1, <2>2
<1> QED BY <1>1, <1>2, <1>3 DEF CacheParted

\* What CacheInv says of the call that takes a step.
LEMMA CallFacts ==
  ASSUME CacheParted, NEW c \in Calls
  PROVE  /\ CallInv(c) /\ call[c] \in CallStates /\ seen[c] \in SUBSET Versions
         /\ \A m \in Models : disk[m] \in Versions /\ disk[m] <= version
         /\ version \in Nat /\ Fingerprinted /\ ResidentInv
         /\ call \in [Calls -> CallStates] /\ seen \in [Calls -> SUBSET Versions]
         /\ Nothing \notin Calls /\ Nothing \notin Models
<1>1. ResidentInv /\ CallInv(c)
  BY DEF CacheParted
<1>2. ASSUME NEW m \in Models
      PROVE  disk[m] \in Versions /\ disk[m] <= version
  BY <1>1, VersionsAssumption DEF ResidentInv, Versions
<1>3. version \in Nat
  BY <1>1, VersionsAssumption DEF ResidentInv, Versions
<1> QED BY <1>1, <1>2, <1>3, NothingAssumption DEF ResidentInv, CallInv, CacheParted

LEMMA ResolveInv ==
  ASSUME CacheParted, NEW c \in Calls, Resolve(c)
  PROVE  CacheParted'
<1> DEFINE r == [Resting EXCEPT !.at = "waiting", !.want = active]
<1>1. active \in Models /\ ~Busy(c)
  BY CallFacts DEF Resolve, ResidentInv
<1>2. r \in CallStates /\ r.at = "waiting" /\ r.want = active /\ r.identity = 0
  <2>1. Resting \in CallStates /\ Resting.identity = 0
    BY RestingTyped DEF Resting
  <2> QED BY <1>1, <2>1 DEF CallStates
<1>3. call' = [call EXCEPT ![c] = r] /\ seen' = [seen EXCEPT ![c] = {disk[active]}]
  BY DEF Resolve
<1> HIDE DEF r
<1>4. UNCHANGED <<files, settings, resident, lock>>
  BY DEF Resolve
<1>5. call'[c] = r /\ seen'[c] = {disk[active]}
  BY <1>3, CallFacts
<1>6. disk[active] \in Versions /\ 0 <= version
  BY <1>1, CallFacts
<1>7. lock # c
  BY <1>1, CallFacts DEF CallInv, Busy
<1>8. CallInv(c)'
  BY <1>1, <1>2, <1>4, <1>5, <1>6, <1>7 DEF CallInv, Busy, files
<1>9. seen' \in [Calls -> SUBSET Versions] /\ \A d \in Calls \ {c} : seen'[d] = seen[d]
  BY <1>3, <1>6, CallFacts
<1>10. Fingerprinted'
  BY <1>4, CallFacts DEF Fingerprinted, files
<1>11. /\ lock' \in Calls \cup {Nothing}
       /\ resident' \in {Nothing} \cup
             [model : Models, identity : Versions, bytes : Versions \ {0}]
  BY <1>4, CallFacts DEF ResidentInv
<1> QED BY <1>2, <1>3, <1>4, <1>8, <1>9, <1>10, <1>11, CallStepKeeps

\* Where a call goes once its model is resident: it is over, or it runs.
LEMMA ReadyKeeps ==
  ASSUME CacheParted, NEW c \in Calls, Ready(c), call[c].at # "idle",
         lock \in {Nothing, c}, UNCHANGED <<files, settings, seen>>,
         resident' \in [model : Models, identity : Versions, bytes : Versions \ {0}],
         resident' # Nothing, Fingerprinted',
         resident'.model = call[c].want, resident'.bytes \in seen[c]
  PROVE  CacheParted'
<1>1. CallInv(c) /\ call \in [Calls -> CallStates] /\ call[c] \in CallStates
  BY CallFacts
<1>2. PICK r \in CallStates :
        /\ call' = [call EXCEPT ![c] = r] /\ r.want \in Models \cup {Nothing}
        /\ \/ lock' = Nothing /\ r = Resting
           \/ lock' = c /\ r.at = "running" /\ r.want = call[c].want
              /\ r.identity = call[c].identity
  <2>1. CASE Leaves(c)
    BY <2>1, RestingTyped, CallFields DEF Leaves
  <2>2. CASE lock' = c /\ CallGoes(c, "running")
    <3>1. [call[c] EXCEPT !.at = "running"] \in CallStates
      BY <1>1, CallFields
    <3>2. call' = [call EXCEPT ![c] = [call[c] EXCEPT !.at = "running"]]
      BY <2>2 DEF CallGoes
    <3>3. /\ [call[c] EXCEPT !.at = "running"].at = "running"
          /\ [call[c] EXCEPT !.at = "running"].want = call[c].want
          /\ [call[c] EXCEPT !.at = "running"].identity = call[c].identity
      BY <1>1 DEF CallStates
    <3> QED BY <2>2, <3>1, <3>2, <3>3, <1>1, CallFields
  <2> QED BY <2>1, <2>2 DEF Ready
<1>3. call'[c] = r
  BY <1>1, <1>2
<1>4. CallInv(c)'
  <2>1. CASE lock' = Nothing /\ r = Resting
    <3>1. lock' # c /\ 0 <= version
      BY <2>1, CallFacts
    <3> QED BY <1>1, <1>2, <1>3, <2>1, <3>1, RestingTyped
            DEF CallInv, Busy, files, Resting
  <2>2. CASE lock' = c /\ r.at = "running" /\ r.want = call[c].want
             /\ r.identity = call[c].identity
    BY <1>1, <1>2, <1>3, <2>2 DEF CallInv, Busy, files
  <2> QED BY <1>2, <2>1, <2>2
<1>5. /\ seen' \in [Calls -> SUBSET Versions] /\ \A d \in Calls \ {c} : seen'[d] = seen[d]
      /\ lock' \in Calls \cup {Nothing}
      /\ \A d \in Calls \ {c} : lock' = d <=> lock = d
      /\ \A d \in Calls \ {c} : lock = d => resident' = resident
  BY <1>2, CallFacts
<1> QED BY <1>2, <1>4, <1>5, CallStepKeeps

LEMMA ReuseInv ==
  ASSUME CacheParted, NEW c \in Calls, Reuse(c)
  PROVE  CacheParted'
<1>1. /\ CallInv(c) /\ call[c].at = "waiting" /\ call[c].want \in Models
      /\ disk[call[c].want] \in seen[c]
  BY CallFacts DEF Reuse, CallInv, Busy
<1>2. resident # Nothing /\ UNCHANGED <<resident, files, settings, seen>>
  BY DEF Reuse, Fits
<1>3. resident.model = call[c].want /\ resident.bytes = disk[call[c].want]
  BY CallFacts DEF Reuse, Fits, Fingerprinted
<1>4. resident \in [model : Models, identity : Versions, bytes : Versions \ {0}]
  BY <1>2, CallFacts DEF ResidentInv
<1>5. Fingerprinted'
  BY <1>2, CallFacts DEF Fingerprinted, files
<1>6. Ready(c) /\ lock = Nothing
  BY DEF Reuse
<1> QED BY <1>1, <1>2, <1>3, <1>4, <1>5, <1>6, ReadyKeeps

LEMMA BeginLoadInv ==
  ASSUME CacheParted, NEW c \in Calls, BeginLoad(c)
  PROVE  CacheParted'
<1> DEFINE r == [call[c] EXCEPT !.at = "loading", !.identity = disk[call[c].want]]
<1>1. /\ CallInv(c) /\ call[c].at = "waiting" /\ call[c].want \in Models
      /\ disk[call[c].want] \in Versions /\ disk[call[c].want] <= version
      /\ call[c] \in CallStates
  BY CallFacts DEF BeginLoad, CallInv, Busy
<1>2. /\ r \in CallStates /\ r.at = "loading" /\ r.want = call[c].want
      /\ r.identity = disk[call[c].want]
  BY <1>1 DEF CallStates
<1>3. call' = [call EXCEPT ![c] = r]
  BY DEF BeginLoad
<1> HIDE DEF r
<1>4. /\ lock = Nothing /\ lock' = c /\ resident' = Nothing
      /\ UNCHANGED <<files, settings, seen>>
  BY DEF BeginLoad
<1>5. call'[c] = r
  BY <1>3, CallFacts
<1>6. CallInv(c)'
  BY <1>1, <1>2, <1>4, <1>5 DEF CallInv, Busy, files
<1>7. Fingerprinted'
  BY <1>4 DEF Fingerprinted
<1>8. /\ seen' \in [Calls -> SUBSET Versions] /\ \A d \in Calls \ {c} : seen'[d] = seen[d]
      /\ lock' \in Calls \cup {Nothing}
      /\ \A d \in Calls \ {c} : lock' = d <=> lock = d
      /\ \A d \in Calls \ {c} : lock = d => resident' = resident
  BY <1>4, CallFacts
<1> QED BY <1>2, <1>3, <1>4, <1>6, <1>7, <1>8, CallStepKeeps

LEMMA LoadSucceedsInv ==
  ASSUME CacheParted, NEW c \in Calls, LoadSucceeds(c)
  PROVE  CacheParted'
<1> DEFINE m == call[c].want
<1>1. /\ CallInv(c) /\ call[c].at = "loading" /\ m \in Models
      /\ disk[m] \in seen[c] /\ call[c].identity <= version /\ lock = c
  BY CallFacts DEF LoadSucceeds, CallInv, Busy
<1>2. call[c].identity \in Versions /\ disk[m] \in Versions \ {0}
  BY <1>1, CallFacts, CallFields DEF LoadSucceeds
<1>3. resident' = Loaded(m, call[c].identity, disk[m])
  BY DEF LoadSucceeds
<1>4. UNCHANGED <<files, settings, seen>> /\ Ready(c)
  BY DEF LoadSucceeds
<1>5. /\ resident' \in [model : Models, identity : Versions, bytes : Versions \ {0}]
      /\ resident' # Nothing /\ resident'.model = m
      /\ resident'.identity = call[c].identity /\ resident'.bytes = disk[m]
  BY <1>1, <1>2, <1>3, LoadedTyped
<1>6. Fingerprinted'
  BY <1>1, <1>4, <1>5 DEF Fingerprinted, files
<1>7. call[c].at # "idle" /\ lock \in {Nothing, c}
  BY <1>1
<1>8. resident'.model = call[c].want /\ resident'.bytes \in seen[c]
  BY <1>1, <1>5
<1> QED BY <1>4, <1>5, <1>6, <1>7, <1>8, ReadyKeeps

\* A call that holds the lock leaves.
LEMMA LeavesInv ==
  ASSUME CacheParted, NEW c \in Calls, Leaves(c), lock = c,
         UNCHANGED <<files, settings, resident, seen>>
  PROVE  CacheParted'
<1>1. call' = [call EXCEPT ![c] = Resting] /\ lock' = Nothing /\ Resting \in CallStates
  BY RestingTyped DEF Leaves
<1>2. call'[c] = Resting /\ 0 <= version
  BY <1>1, CallFacts
<1>3. CallInv(c)'
  <2>1. call'[c] \in CallStates /\ seen'[c] \in SUBSET Versions
    BY <1>1, <1>2, CallFacts
  <2>2. call'[c].at = "idle" /\ call'[c].identity = 0 /\ lock' # c /\ version' = version
    BY <1>1, <1>2, CallFacts DEF Resting, files
  <2> QED BY <1>2, <2>1, <2>2 DEF CallInv, Busy
<1>4. Fingerprinted'
  BY CallFacts DEF Fingerprinted, files
<1>5. /\ seen' \in [Calls -> SUBSET Versions] /\ \A d \in Calls \ {c} : seen'[d] = seen[d]
      /\ lock' \in Calls \cup {Nothing}
      /\ \A d \in Calls \ {c} : lock' = d <=> lock = d
      /\ resident' \in {Nothing} \cup
             [model : Models, identity : Versions, bytes : Versions \ {0}]
  BY <1>1, CallFacts DEF ResidentInv
<1> QED BY <1>1, <1>3, <1>4, <1>5, CallStepKeeps

LEMMA LoadOrRunFailsInv ==
  ASSUME CacheParted, NEW c \in Calls, LoadFails(c) \/ RunFails(c)
  PROVE  CacheParted'
<1>1. lock = c
  BY CallFacts DEF LoadFails, RunFails, CallInv
<1>2. Leaves(c) /\ UNCHANGED <<files, settings, resident, seen>>
  BY DEF LoadFails, RunFails
<1> QED BY <1>1, <1>2, LeavesInv

LEMMA RunsInv ==
  ASSUME CacheParted, NEW c \in Calls, Runs(c)
  PROVE  CacheParted'
<1> DEFINE r == [call[c] EXCEPT !.at = "ran"]
<1>1. CallInv(c) /\ call[c] \in CallStates /\ call[c].at = "running" /\ lock = c
  BY CallFacts DEF Runs, CallInv
<1>2. /\ r \in CallStates /\ r.at = "ran" /\ r.want = call[c].want
      /\ r.identity = call[c].identity
  BY <1>1 DEF CallStates
<1>3. call' = [call EXCEPT ![c] = r] /\ lock' = Nothing
  BY DEF Runs, CallGoes
<1> HIDE DEF r
<1>4. UNCHANGED <<files, settings, resident, seen>>
  BY DEF Runs
<1>5. call'[c] = r /\ lock' # c
  BY <1>3, CallFacts
<1>6. CallInv(c)'
  BY <1>1, <1>2, <1>4, <1>5 DEF CallInv, Busy, files
<1>7. Fingerprinted'
  BY <1>4, CallFacts DEF Fingerprinted, files
<1>8. /\ seen' \in [Calls -> SUBSET Versions] /\ \A d \in Calls \ {c} : seen'[d] = seen[d]
      /\ lock' \in Calls \cup {Nothing}
      /\ \A d \in Calls \ {c} : lock' = d <=> lock = d
      /\ resident' \in {Nothing} \cup
             [model : Models, identity : Versions, bytes : Versions \ {0}]
  BY <1>1, <1>3, <1>4, CallFacts DEF ResidentInv
<1> QED BY <1>2, <1>3, <1>4, <1>6, <1>7, <1>8, CallStepKeeps

\* The model goes only while nobody holds it.
LEMMA UnloadKeeps ==
  ASSUME CacheParted, Unload \/ UNCHANGED resident, UNCHANGED files
  PROVE  /\ Fingerprinted' /\ \A d \in Calls : lock = d => resident' = resident
         /\ resident' \in {Nothing} \cup
               [model : Models, identity : Versions, bytes : Versions \ {0}]
<1>1. resident' = resident \/ (resident' = Nothing /\ lock = Nothing)
  BY DEF Unload
<1>2. ResidentInv /\ Nothing \notin Calls
  BY NothingAssumption DEF CacheParted
<1> QED BY <1>1, <1>2 DEF ResidentInv, Fingerprinted, files

LEMMA RepliesInv ==
  ASSUME CacheParted, NEW c \in Calls, Replies(c)
  PROVE  CacheParted'
<1>1. call' = [call EXCEPT ![c] = Resting] /\ Resting \in CallStates
  BY RestingTyped DEF Replies
<1>2. UNCHANGED <<files, settings, lock, seen>> /\ (Unload \/ UNCHANGED resident)
  BY DEF Replies
<1>3. /\ Fingerprinted' /\ \A d \in Calls : lock = d => resident' = resident
      /\ resident' \in {Nothing} \cup
            [model : Models, identity : Versions, bytes : Versions \ {0}]
  BY <1>2, UnloadKeeps
<1>4. call'[c] = Resting /\ 0 <= version /\ lock # c
  BY <1>1, CallFacts DEF Replies, CallInv
<1>5. CallInv(c)'
  <2>1. call'[c] \in CallStates /\ seen'[c] \in SUBSET Versions
    BY <1>1, <1>2, <1>4, CallFacts
  <2>2. call'[c].at = "idle" /\ call'[c].identity = 0 /\ lock' # c /\ version' = version
    BY <1>2, <1>4 DEF Resting, files
  <2> QED BY <1>4, <2>1, <2>2 DEF CallInv, Busy
<1>6. /\ seen' \in [Calls -> SUBSET Versions] /\ \A d \in Calls \ {c} : seen'[d] = seen[d]
      /\ lock' \in Calls \cup {Nothing}
      /\ \A d \in Calls \ {c} : lock' = d <=> lock = d
  BY <1>2, CallFacts DEF ResidentInv
<1> QED BY <1>1, <1>2, <1>3, <1>5, <1>6, CallStepKeeps

LEMMA TickInv ==
  ASSUME CacheParted, Tick
  PROVE  CacheParted'
<1>1. UNCHANGED <<files, settings, lock, call, seen>> /\ Unload
  BY DEF Tick
<1>2. /\ Fingerprinted' /\ \A d \in Calls : lock = d => resident' = resident
      /\ resident' \in {Nothing} \cup
            [model : Models, identity : Versions, bytes : Versions \ {0}]
  BY <1>1, UnloadKeeps
<1>3. ResidentInv'
  BY <1>1, <1>2 DEF CacheParted, ResidentInv, files, settings
<1>4. ASSUME NEW d \in Calls PROVE CallInv(d)'
  BY <1>1, <1>2, OthersStay DEF CacheParted
<1> QED BY <1>1, <1>3, <1>4 DEF CacheParted

\* The files of the models change: a call that is under way sees what becomes of its own,
\* and a file that came after a fingerprint was taken is not the one it is of.
LEMMA FilesInv ==
  ASSUME CacheParted, NEW after \in [Models -> 0 .. version'], Files(after),
         version' \in Versions, version <= version',
         \A m \in Models : after[m] = disk[m] \/ after[m] = 0 \/ after[m] > version,
         active' \in Models \cup {Nothing}, UNCHANGED <<policy, cache>>
  PROVE  CacheParted'
<1>1. disk' = after /\ UNCHANGED <<resident, lock, call>>
  BY DEF Files, cache
<1>2. ResidentInv /\ version \in Nat /\ version' \in Nat
  BY VersionsAssumption DEF CacheParted, ResidentInv, Versions
<1>3. Fingerprinted'
  <2> SUFFICES ASSUME resident # Nothing
               PROVE  /\ resident.identity <= version'
                      /\ (disk'[resident.model] # 0
                            /\ disk'[resident.model] = resident.identity
                          => resident.bytes = resident.identity)
    BY <1>1 DEF Fingerprinted
  <2> DEFINE m == resident.model
  <2>1. /\ m \in Models /\ resident.identity \in Nat /\ resident.identity <= version
        /\ (disk[m] # 0 /\ disk[m] = resident.identity
            => resident.bytes = resident.identity)
    BY <1>2, VersionsAssumption DEF ResidentInv, Fingerprinted, Versions
  <2>2. after[m] = disk[m] \/ after[m] = 0 \/ after[m] > version
    BY <2>1
  <2>3. after[m] > version => after[m] # resident.identity
    BY <1>2, <2>1
  <2> QED BY <1>1, <1>2, <2>1, <2>2, <2>3
<1>4. ResidentInv'
  BY <1>1, <1>2, <1>3 DEF ResidentInv
<1>5. ASSUME NEW c \in Calls
      PROVE  /\ seen'[c] \in SUBSET Versions
             /\ Busy(c) => seen'[c] = seen[c] \cup {after[call[c].want]}
  <2>1. CallInv(c)
    BY DEF CacheParted
  <2>2. seen'[c] = IF Busy(c) THEN seen[c] \cup {after[call[c].want]} ELSE {}
    BY DEF Files
  <2>3. \A m \in Models : after[m] \in Versions
    BY <1>2, VersionsAssumption DEF Versions
  <2> QED BY <2>1, <2>2, <2>3 DEF CallInv
<1>6. seen' \in [Calls -> SUBSET Versions]
  <2>1. seen' = [c \in Calls |-> seen'[c]]
    BY DEF Files
  <2> QED BY <1>5, <2>1
<1>7. ASSUME NEW c \in Calls PROVE CallInv(c)'
  <2>1. CallInv(c) /\ call[c].identity \in Nat
    BY VersionsAssumption DEF CacheParted, CallInv, CallStates, Versions
  <2>2. call[c].identity <= version'
    BY <1>2, <2>1 DEF CallInv
  <2>3. (call[c].at = "running" => Busy(c)) /\ (Busy(c)' <=> Busy(c))
    BY <1>1 DEF Busy
  <2>4. Busy(c) => /\ seen'[c] = seen[c] \cup {after[call[c].want]}
                   /\ disk'[call[c].want] \in seen'[c]
    BY <1>1, <1>5
  <2> QED BY <1>1, <1>5, <2>1, <2>2, <2>3, <2>4 DEF CallInv
<1>8. call' \in [Calls -> CallStates]
  BY <1>1 DEF CacheParted
<1> QED BY <1>4, <1>6, <1>7, <1>8 DEF CacheParted

\* Nothing of the cache changes but, possibly, the choice and the policy.
LEMMA SettingsInv ==
  ASSUME CacheParted, active' \in Models \cup {Nothing}, policy' \in Policies,
         UNCHANGED <<files, cache, seen>>
  PROVE  CacheParted'
<1>1. ResidentInv'
  BY DEF CacheParted, ResidentInv, Fingerprinted, files, cache
<1>2. ASSUME NEW c \in Calls PROVE CallInv(c)'
  BY OthersStay DEF CacheParted, cache
<1> QED BY <1>1, <1>2 DEF CacheParted, cache

LEMMA CacheStepInv == ASSUME CacheParted, CacheStep PROVE CacheParted'
<1>1. ASSUME NEW c \in Calls, CallStep(c) \/ Resolve(c) PROVE CacheParted'
  BY <1>1, ResolveInv, ReuseInv, BeginLoadInv, LoadSucceedsInv, LoadOrRunFailsInv,
     RunsInv, RepliesInv DEF CallStep
<1> QED BY <1>1, TickInv DEF CacheStep

\* A file is removed, here or elsewhere.
LEMMA RemovedInv ==
  ASSUME CacheParted, NEW m \in Models, Files([disk EXCEPT ![m] = 0]),
         active' \in Models \cup {Nothing}, UNCHANGED <<version, policy, cache>>
  PROVE  CacheParted'
<1> DEFINE after == [disk EXCEPT ![m] = 0]
<1>1. ResidentInv /\ version \in Nat
  BY VersionsAssumption DEF CacheParted, ResidentInv, Versions
<1>2. after \in [Models -> 0 .. version'] /\ version' \in Versions /\ version <= version'
  BY <1>1 DEF ResidentInv
<1>3. \A x \in Models : after[x] = disk[x] \/ after[x] = 0 \/ after[x] > version
  BY <1>1 DEF ResidentInv
<1>4. Files(after)
  OBVIOUS
<1> HIDE DEF after
<1> QED BY <1>2, <1>3, <1>4, FilesInv

\* A download lands: what it puts there is newer than anything fingerprinted.
LEMMA LandsInv ==
  ASSUME CacheParted, NEW m \in Models, version < MaxVersions, version' = version + 1,
         Files([disk EXCEPT ![m] = version']), UNCHANGED <<settings, cache>>
  PROVE  CacheParted'
<1> DEFINE after == [disk EXCEPT ![m] = version']
<1>1. ResidentInv /\ version \in Nat /\ MaxVersions \in Nat
  BY VersionsAssumption DEF CacheParted, ResidentInv, Versions
<1>2. version' \in Versions /\ version <= version' /\ version' > version
  BY <1>1 DEF Versions
<1>3. after \in [Models -> 0 .. version']
  <2>1. \A x \in Models : disk[x] \in 0 .. version
    BY <1>1 DEF ResidentInv
  <2>2. \A x \in Models : after[x] \in 0 .. version'
    BY <1>1, <1>2, <2>1 DEF ResidentInv
  <2> QED BY <1>1, <2>2 DEF ResidentInv
<1>4. \A x \in Models : after[x] = disk[x] \/ after[x] = 0 \/ after[x] > version
  BY <1>1, <1>2 DEF ResidentInv
<1>5. Files(after)
  OBVIOUS
<1>6. active' \in Models \cup {Nothing} /\ UNCHANGED policy
  BY <1>1 DEF ResidentInv, settings
<1> HIDE DEF after
<1> QED BY <1>2, <1>3, <1>4, <1>5, <1>6, FilesInv

------------------------------------------------------------------------
(* The transfers of a page. *)

AttemptStates ==
    [at : {"none", "checking", "transferring", "settling", "done"},
     model : Models \cup {Nothing}, there : BOOLEAN]
TaskStates == {"none", "starting", "live", "landed", "stopped"}
Unanswered == {"checking", "transferring"}

\* What TypeOK says of the page and of the host's tasks.
PageTyped ==
    /\ transfers \in [Models -> {Nothing} \cup [id : Attempts, cancelling : BOOLEAN]]
    /\ attempts \in 0 .. MaxAttempts
    /\ attempt \in [Attempts -> AttemptStates] /\ task \in [Attempts -> TaskStates]
    /\ \A a \in Attempts : (attempt[a].at = "none" <=> a > attempts)

PageInv == PageTyped /\ HoldsItsModel
LocalParted == CacheParted /\ PageInv

LEMMA LocalParts == LocalInv <=> LocalParted
  BY CacheParts
     DEF LocalInv, LocalParted, PageInv, PageTyped, LocalTypeOK, CacheInv, AttemptStates, TaskStates

\* A transfer is never mistaken for none.
LEMMA TransferIsSome ==
  ASSUME NEW t \in [id : Attempts, cancelling : BOOLEAN]
  PROVE  t # Nothing
  BY NoTransferAssumption, AttemptsAssumption DEF Attempts

LEMMA DownloadPage ==
  ASSUME PageInv, NEW m \in Models, Download(m)
  PROVE  PageInv'
<1> DEFINE n == attempts + 1
           t == [id |-> n, cancelling |-> FALSE]
           fresh == [at |-> "checking", model |-> m, there |-> disk[m] # 0]
<1>1. /\ n \in Attempts /\ attempts' = n /\ attempts \in Nat /\ n \in 0 .. MaxAttempts
      /\ transfers[m] = Nothing
  BY AttemptsAssumption DEF Download, PageInv, PageTyped, Attempts
<1>2. t \in [id : Attempts, cancelling : BOOLEAN] /\ t # Nothing
  BY <1>1, TransferIsSome
<1>3. /\ transfers' = [transfers EXCEPT ![m] = t] /\ attempt' = [attempt EXCEPT ![n] = fresh]
      /\ UNCHANGED task
  BY <1>1 DEF Download
<1>4. /\ fresh \in AttemptStates
      /\ fresh.at = "checking" /\ fresh.model = m /\ t.id = n
  BY DEF AttemptStates
<1> HIDE DEF t, fresh
<1>5. /\ attempt'[n] = fresh /\ \A a \in Attempts \ {n} : attempt'[a] = attempt[a]
      /\ transfers'[m] = t /\ \A x \in Models \ {m} : transfers'[x] = transfers[x]
  BY <1>1, <1>3 DEF PageInv, PageTyped
<1>6. attempt[n].at = "none"
  BY <1>1 DEF PageInv, PageTyped
<1>7. PageTyped'
  <2>1. ASSUME NEW a \in Attempts PROVE (attempt'[a].at = "none" <=> a > n)
    <3>1. a \in Nat /\ (attempt[a].at = "none" <=> a > attempts)
      BY DEF PageInv, PageTyped, Attempts
    <3> QED BY <1>1, <1>4, <1>5, <3>1
  <2>2. transfers' \in [Models -> {Nothing} \cup [id : Attempts, cancelling : BOOLEAN]]
    BY <1>2, <1>3 DEF PageInv, PageTyped
  <2>3. attempt' \in [Attempts -> AttemptStates]
    BY <1>3, <1>4 DEF PageInv, PageTyped
  <2> QED BY <1>1, <1>3, <2>1, <2>2, <2>3 DEF PageInv, PageTyped
<1>8. HoldsItsModel'
  <2>1. ASSUME NEW x \in Models, transfers'[x] # Nothing
        PROVE  /\ attempt'[transfers'[x].id].model = x
               /\ attempt'[transfers'[x].id].at \in {"checking", "transferring"}
    <3>1. CASE x = m
      BY <1>4, <1>5, <3>1
    <3>2. CASE x # m
      <4>1. transfers'[x] = transfers[x] /\ transfers[x].id \in Attempts
        BY <1>5, <2>1, <3>2 DEF PageInv, PageTyped
      <4>2. /\ attempt[transfers[x].id].model = x
            /\ attempt[transfers[x].id].at \in {"checking", "transferring"}
        BY <2>1, <4>1 DEF PageInv, HoldsItsModel
      <4>3. transfers[x].id # n
        BY <1>6, <4>2
      <4> QED BY <1>5, <4>1, <4>2, <4>3
    <3> QED BY <3>1, <3>2
  <2>2. ASSUME NEW a \in Attempts
        PROVE  /\ attempt'[a].at \in {"checking", "transferring"} =>
                     /\ attempt'[a].model \in Models
                     /\ transfers'[attempt'[a].model] # Nothing
                     /\ transfers'[attempt'[a].model].id = a
               /\ attempt'[a].at = "settling" => attempt'[a].model \in Models
               /\ task'[a] \in {"starting", "live"} => attempt'[a].at = "transferring"
    <3>1. CASE a = n
      BY <1>2, <1>3, <1>4, <1>5, <1>6, <3>1 DEF PageInv, HoldsItsModel
    <3>2. CASE a # n
      <4>1. attempt'[a] = attempt[a] /\ task'[a] = task[a]
        BY <1>3, <1>5, <3>2
      <4>2. attempt[a].at \in {"checking", "transferring"} =>
              /\ attempt[a].model \in Models /\ transfers[attempt[a].model] # Nothing
              /\ transfers[attempt[a].model].id = a
        BY DEF PageInv, HoldsItsModel
      <4>3. attempt[a].at \in {"checking", "transferring"} =>
              attempt[a].model \in Models \ {m}
        BY <1>1, <4>2
      <4> QED BY <1>5, <4>1, <4>2, <4>3 DEF PageInv, HoldsItsModel
    <3> QED BY <3>1, <3>2
  <2> QED BY <2>1, <2>2 DEF HoldsItsModel
<1> QED BY <1>7, <1>8 DEF PageInv

\* One attempt moves on.  Until it is answered it is the transfer of its model; when it is,
\* that transfer is forgotten.
LEMMA AttemptMoves ==
  ASSUME PageInv, NEW a \in Attempts, NEW r \in AttemptStates, NEW k \in TaskStates,
         attempt' = [attempt EXCEPT ![a] = r], task' = [task EXCEPT ![a] = k],
         UNCHANGED attempts, attempt[a].at # "none", r.at # "none",
         r.at \in Unanswered => r.model = attempt[a].model,
         \/ UNCHANGED transfers /\ (r.at \in Unanswered <=> attempt[a].at \in Unanswered)
         \/ /\ transfers' = [transfers EXCEPT ![attempt[a].model] = Nothing]
            /\ attempt[a].at \in Unanswered /\ r.at \notin Unanswered,
         r.at = "settling" => r.model \in Models,
         k \in {"starting", "live"} => r.at = "transferring"
  PROVE  PageInv'
<1>1. /\ attempt'[a] = r /\ \A b \in Attempts \ {a} : attempt'[b] = attempt[b]
      /\ task'[a] = k /\ \A b \in Attempts \ {a} : task'[b] = task[b]
  BY DEF PageInv, PageTyped
<1>2. ASSUME NEW b \in Attempts
      PROVE  /\ attempt[b].at \in Unanswered =>
                  /\ attempt[b].model \in Models /\ transfers[attempt[b].model] # Nothing
                  /\ transfers[attempt[b].model].id = b
             /\ attempt[b].at = "settling" => attempt[b].model \in Models
             /\ task[b] \in {"starting", "live"} => attempt[b].at = "transferring"
  BY DEF PageInv, HoldsItsModel, Unanswered
<1>3. ASSUME NEW m \in Models, transfers[m] # Nothing
      PROVE  /\ transfers[m].id \in Attempts /\ attempt[transfers[m].id].model = m
             /\ attempt[transfers[m].id].at \in Unanswered
  BY <1>3 DEF PageInv, PageTyped, HoldsItsModel, Unanswered
\* Which transfers are left, and whether this attempt's is one.
<1>4. /\ \A m \in Models : transfers'[m] \in {transfers[m], Nothing}
      /\ \A m \in Models : transfers[m] # Nothing /\ transfers[m].id # a
                           => transfers'[m] = transfers[m]
      /\ \A m \in Models : transfers'[m] # Nothing /\ transfers[m].id = a
                           => r.at \in Unanswered
      /\ r.at \in Unanswered => UNCHANGED transfers /\ attempt[a].at \in Unanswered
  <2>1. CASE UNCHANGED transfers /\ (r.at \in Unanswered <=> attempt[a].at \in Unanswered)
    BY <1>3, <2>1
  <2>2. CASE /\ transfers' = [transfers EXCEPT ![attempt[a].model] = Nothing]
             /\ attempt[a].at \in Unanswered /\ r.at \notin Unanswered
    <3>1. attempt[a].model \in Models /\ transfers[attempt[a].model].id = a
      BY <1>2, <2>2
    <3>2. /\ transfers'[attempt[a].model] = Nothing
          /\ \A m \in Models \ {attempt[a].model} : transfers'[m] = transfers[m]
      BY <2>2, <3>1 DEF PageInv, PageTyped
    <3>3. \A m \in Models : transfers[m] # Nothing /\ transfers[m].id = a
                            => m = attempt[a].model
      BY <1>3
    <3> HIDE <1>2, <1>3
    <3> QED BY <2>2, <3>1, <3>2, <3>3
  <2> QED BY <2>1, <2>2
<1>5. PageTyped'
  <2>1. transfers' \in [Models -> {Nothing} \cup [id : Attempts, cancelling : BOOLEAN]]
    BY <1>2 DEF PageInv, PageTyped
  <2>2. ASSUME NEW b \in Attempts PROVE (attempt'[b].at = "none" <=> b > attempts)
    BY <1>1 DEF PageInv, PageTyped
  <2> QED BY <2>1, <2>2 DEF PageInv, PageTyped
<1>6. ASSUME NEW m \in Models, transfers'[m] # Nothing
      PROVE  /\ attempt'[transfers'[m].id].model = m
             /\ attempt'[transfers'[m].id].at \in Unanswered
  <2>1. transfers'[m] = transfers[m] /\ transfers[m] # Nothing
    BY <1>4, <1>6
  <2>2. /\ transfers[m].id \in Attempts /\ attempt[transfers[m].id].model = m
        /\ attempt[transfers[m].id].at \in Unanswered
    BY <1>3, <2>1
  <2>3. CASE transfers[m].id = a
    BY <1>1, <1>4, <1>6, <2>1, <2>2, <2>3
  <2>4. CASE transfers[m].id # a
    BY <1>1, <2>1, <2>2, <2>4
  <2> QED BY <2>3, <2>4
<1>7. ASSUME NEW b \in Attempts
      PROVE  /\ attempt'[b].at \in Unanswered =>
                  /\ attempt'[b].model \in Models /\ transfers'[attempt'[b].model] # Nothing
                  /\ transfers'[attempt'[b].model].id = b
             /\ attempt'[b].at = "settling" => attempt'[b].model \in Models
             /\ task'[b] \in {"starting", "live"} => attempt'[b].at = "transferring"
  <2>1. CASE b = a
    <3>1. r.at \in Unanswered =>
            /\ r.model = attempt[a].model /\ attempt[a].model \in Models
            /\ transfers'[r.model] # Nothing /\ transfers'[r.model].id = a
      BY <1>2, <1>4
    <3> QED BY <1>1, <2>1, <3>1
  <2>2. CASE b # a
    <3>1. attempt'[b] = attempt[b] /\ task'[b] = task[b]
      BY <1>1, <2>2
    <3>2. attempt[b].at \in Unanswered =>
            /\ attempt[b].model \in Models /\ transfers'[attempt[b].model] # Nothing
            /\ transfers'[attempt[b].model].id = b
      BY <1>2, <1>4, <2>2
    <3> QED BY <1>2, <3>1, <3>2
  <2> QED BY <2>1, <2>2
<1>8. HoldsItsModel'
  BY <1>6, <1>7 DEF HoldsItsModel, Unanswered
<1> QED BY <1>5, <1>8 DEF PageInv

\* What PageInv says of one attempt.
LEMMA AttemptFacts ==
  ASSUME PageInv, NEW a \in Attempts
  PROVE  /\ attempt[a] \in AttemptStates /\ task[a] \in TaskStates
         /\ attempt \in [Attempts -> AttemptStates] /\ task \in [Attempts -> TaskStates]
         /\ attempt[a].model \in Models \cup {Nothing} /\ attempt[a].there \in BOOLEAN
         /\ attempt[a].at \in Unanswered \cup {"settling"} => attempt[a].model \in Models
         /\ task[a] \in {"starting", "live"} => attempt[a].at = "transferring"
<1>1. /\ attempt[a] \in AttemptStates /\ task[a] \in TaskStates
      /\ attempt \in [Attempts -> AttemptStates] /\ task \in [Attempts -> TaskStates]
  BY DEF PageInv, PageTyped
<1>2. attempt[a].model \in Models \cup {Nothing} /\ attempt[a].there \in BOOLEAN
  BY <1>1 DEF AttemptStates
<1>3. /\ attempt[a].at \in Unanswered \cup {"settling"} => attempt[a].model \in Models
      /\ task[a] \in {"starting", "live"} => attempt[a].at = "transferring"
  BY DEF PageInv, HoldsItsModel, Unanswered
<1> QED BY <1>1, <1>2, <1>3

LEMMA FinishedMoves ==
  ASSUME PageInv, NEW a \in Attempts, Finished(a), UNCHANGED attempts,
         \/ UNCHANGED transfers /\ attempt[a].at = "settling"
         \/ Forget(attempt[a].model) /\ attempt[a].at \in Unanswered
  PROVE  PageInv'
<1> DEFINE r == [Unused EXCEPT !.at = "done"]
<1>1. Unused \in AttemptStates
  BY DEF Unused, AttemptStates
<1>2. r \in AttemptStates /\ r.at = "done" /\ "none" \in TaskStates
  BY <1>1 DEF AttemptStates, TaskStates
<1>3. attempt' = [attempt EXCEPT ![a] = r] /\ task' = [task EXCEPT ![a] = "none"]
  BY DEF Finished
<1> HIDE DEF r
<1>4. attempt[a].at # "none" /\ r.at \notin Unanswered
  BY <1>2 DEF Unanswered
<1>5. \/ UNCHANGED transfers /\ (r.at \in Unanswered <=> attempt[a].at \in Unanswered)
      \/ /\ transfers' = [transfers EXCEPT ![attempt[a].model] = Nothing]
         /\ attempt[a].at \in Unanswered /\ r.at \notin Unanswered
  BY <1>4 DEF Forget, Unanswered
<1> QED BY <1>2, <1>3, <1>4, <1>5, AttemptMoves

\* The task of an attempt goes on, and the page does not know.
LEMMA TaskMoves ==
  ASSUME PageInv, NEW a \in Attempts, NEW from \in {"starting", "live"},
         NEW to \in TaskStates \ {"starting"}, TaskGoes(a, from, to), UNCHANGED page
  PROVE  PageInv'
<1>1. attempt[a].at = "transferring" /\ attempt[a] \in AttemptStates
  BY AttemptFacts DEF TaskGoes
<1>2. attempt' = [attempt EXCEPT ![a] = attempt[a]]
  BY AttemptFacts DEF page
<1>3. task' = [task EXCEPT ![a] = to] /\ UNCHANGED <<transfers, attempts>>
  BY DEF TaskGoes, page
<1> QED BY <1>1, <1>2, <1>3, AttemptMoves

\* A cancel marks the transfer, and drops the task if there is one to drop.
LEMMA CancelPage ==
  ASSUME PageInv, NEW m \in Models, Cancel(m)
  PROVE  PageInv'
<1> DEFINE a == transfers[m].id
           t == [transfers[m] EXCEPT !.cancelling = TRUE]
<1>1. transfers[m] # Nothing /\ transfers[m] \in [id : Attempts, cancelling : BOOLEAN]
  BY DEF Cancel, PageInv, PageTyped
<1>2. /\ t \in [id : Attempts, cancelling : BOOLEAN] /\ t # Nothing /\ t.id = a
      /\ a \in Attempts
  BY <1>1, TransferIsSome
<1>3. /\ transfers' = [transfers EXCEPT ![m] = t] /\ UNCHANGED <<attempts, attempt>>
      /\ \A b \in Attempts : task'[b] \in {task[b], "stopped"}
      /\ task' \in [Attempts -> TaskStates]
  <2>1. task' = IF task[a] = "live" THEN [task EXCEPT ![a] = "stopped"] ELSE task
    BY DEF Cancel, Aborts
  <2>2. task \in [Attempts -> TaskStates] /\ "stopped" \in TaskStates
    BY DEF PageInv, PageTyped, TaskStates
  <2>3. transfers' = [transfers EXCEPT ![m] = t] /\ UNCHANGED <<attempts, attempt>>
    BY DEF Cancel
  <2> HIDE DEF a, t
  <2> QED BY <1>2, <2>1, <2>2, <2>3
<1> HIDE DEF t
<1>4. /\ transfers' \in [Models -> {Nothing} \cup [id : Attempts, cancelling : BOOLEAN]]
      /\ transfers'[m] = t /\ \A x \in Models \ {m} : transfers'[x] = transfers[x]
  BY <1>2, <1>3 DEF PageInv, PageTyped
<1>5. \A x \in Models : /\ transfers'[x] # Nothing <=> transfers[x] # Nothing
                        /\ transfers[x] # Nothing => transfers'[x].id = transfers[x].id
  BY <1>1, <1>2, <1>4
<1>6. PageTyped'
  BY <1>3, <1>4 DEF PageInv, PageTyped
<1>7. HoldsItsModel'
  <2>1. ASSUME NEW x \in Models, transfers'[x] # Nothing
        PROVE  /\ attempt'[transfers'[x].id].model = x
               /\ attempt'[transfers'[x].id].at \in {"checking", "transferring"}
    BY <1>3, <1>5, <2>1 DEF PageInv, HoldsItsModel
  <2>2. ASSUME NEW b \in Attempts
        PROVE  /\ attempt'[b].at \in {"checking", "transferring"} =>
                    /\ attempt'[b].model \in Models /\ transfers'[attempt'[b].model] # Nothing
                    /\ transfers'[attempt'[b].model].id = b
               /\ attempt'[b].at = "settling" => attempt'[b].model \in Models
    BY <1>3, <1>5 DEF PageInv, HoldsItsModel
  <2>3. ASSUME NEW b \in Attempts, task'[b] \in {"starting", "live"}
        PROVE  attempt'[b].at = "transferring"
    BY <1>3, <2>3 DEF PageInv, HoldsItsModel
  <2> QED BY <2>1, <2>2, <2>3 DEF HoldsItsModel
<1> QED BY <1>6, <1>7 DEF PageInv

\* Nothing of the page or its tasks changes.
LEMMA PageStutter == ASSUME PageInv, UNCHANGED <<page, task>> PROVE PageInv'
  BY DEF PageInv, PageTyped, HoldsItsModel, page

------------------------------------------------------------------------
(* Both together. *)

\* What the cache's part says of the choice.
LEMMA ChoiceTyped ==
  ASSUME CacheParted
  PROVE  active \in Models \cup {Nothing} /\ policy \in Policies
  BY DEF CacheParted, ResidentInv

LEMMA PersonInv == ASSUME LocalParted, Person PROVE LocalParted'
<1> USE DEF LocalParted
<1>1. ASSUME NEW m \in Models, Choose(m) PROVE LocalParted'
  <2>1. /\ active' \in Models \cup {Nothing} /\ policy' \in Policies
        /\ UNCHANGED <<files, cache, seen>> /\ UNCHANGED <<page, task>>
    BY <1>1, ChoiceTyped DEF Choose
  <2> QED BY <2>1, SettingsInv, PageStutter
<1>2. ASSUME NEW p \in Policies, SetPolicy(p) PROVE LocalParted'
  <2>1. /\ active' \in Models \cup {Nothing} /\ policy' \in Policies
        /\ UNCHANGED <<files, cache, seen>> /\ UNCHANGED <<page, task>>
    BY <1>2, ChoiceTyped DEF SetPolicy
  <2> QED BY <2>1, SettingsInv, PageStutter
<1>3. ASSUME NEW m \in Models, DeleteModel(m) PROVE LocalParted'
  <2>1. UNCHANGED <<version, policy, cache>> /\ UNCHANGED <<page, task>>
    BY <1>3 DEF DeleteModel
  <2>2. active' \in Models \cup {Nothing} /\ policy' \in Policies
    BY <1>3, ChoiceTyped DEF DeleteModel, StandsDown
  <2>3. CASE UNCHANGED <<disk, seen>>
    BY <2>1, <2>2, <2>3, SettingsInv, PageStutter DEF files
  <2>4. CASE Files([disk EXCEPT ![m] = 0])
    BY <2>1, <2>2, <2>4, RemovedInv, PageStutter
  <2> QED BY <1>3, <2>3, <2>4 DEF DeleteModel
<1>4. ASSUME NEW m \in Models, Cancel(m) \/ Download(m) PROVE LocalParted'
  <2>1. UNCHANGED cacheVars
    BY <1>4 DEF Cancel, Download
  <2>2. active' \in Models \cup {Nothing} /\ policy' \in Policies
        /\ UNCHANGED <<files, cache, seen>>
    BY <2>1, ChoiceTyped DEF cacheVars, settings
  <2> QED BY <1>4, <2>2, SettingsInv, CancelPage, DownloadPage
<1> QED BY <1>1, <1>2, <1>3, <1>4 DEF Person

\* What a verb does of the cache besides the page: it may choose its model.
LEMMA VerbInv ==
  ASSUME LocalParted, NEW a \in Attempts, UNCHANGED active \/ ActivatesAfter(a),
         UNCHANGED <<files, policy, cache, seen>>,
         attempt[a].at \in Unanswered \cup {"settling"}
  PROVE  CacheParted'
<1>1. attempt[a].model \in Models
  BY AttemptFacts DEF LocalParted
<1>2. active' \in Models \cup {Nothing} /\ policy' \in Policies
  BY <1>1, ChoiceTyped DEF LocalParted, ActivatesAfter
<1> QED BY <1>2, SettingsInv DEF LocalParted

LEMMA AttemptInv ==
  ASSUME LocalParted, NEW a \in Attempts,
         PageStep(a) \/ Registers(a) \/ Lands(a) \/ TransferFails(a)
  PROVE  LocalParted'
<1> USE DEF LocalParted
<1>1. CASE Stops(a)
  <2>1. /\ attempt[a].at \in Unanswered /\ Forget(attempt[a].model) /\ Finished(a)
        /\ ActivatesAfter(a) /\ UNCHANGED <<files, policy, cache, seen, attempts>>
    BY <1>1 DEF Stops, Unanswered
  <2> QED BY <2>1, FinishedMoves, VerbInv
<1>2. CASE Settles(a)
  <2>1. /\ attempt[a].at = "settling" /\ Finished(a) /\ ActivatesAfter(a)
        /\ UNCHANGED <<files, policy, cache, seen, transfers, attempts>>
    BY <1>2 DEF Settles
  <2> QED BY <2>1, FinishedMoves, VerbInv
<1>3. CASE Asks(a)
  <2> DEFINE r == [attempt[a] EXCEPT !.at = "transferring"]
  <2>1. attempt[a] \in AttemptStates /\ attempt[a].at = "checking"
    BY <1>3, AttemptFacts DEF Asks
  <2>2. r \in AttemptStates /\ r.at = "transferring" /\ r.model = attempt[a].model
    BY <2>1 DEF AttemptStates
  <2>3. /\ attempt' = [attempt EXCEPT ![a] = r] /\ task' = [task EXCEPT ![a] = "starting"]
        /\ UNCHANGED <<cacheVars, transfers, attempts>>
    BY <1>3 DEF Asks
  <2> HIDE DEF r
  <2>4. "starting" \in TaskStates /\ (r.at \in Unanswered <=> attempt[a].at \in Unanswered)
    BY <2>1, <2>2 DEF TaskStates, Unanswered
  <2>5. PageInv'
    BY <2>1, <2>2, <2>3, <2>4, AttemptMoves
  <2>6. CacheParted'
    BY <2>1, <2>3, VerbInv DEF cacheVars, settings, Unanswered
  <2> QED BY <2>5, <2>6
<1>4. CASE Answered(a)
  <2> DEFINE r == [attempt[a] EXCEPT !.at = "settling", !.there = task[a] = "landed"]
  <2>1. /\ attempt[a] \in AttemptStates /\ attempt[a].at = "transferring"
        /\ attempt[a].model \in Models /\ task \in [Attempts -> TaskStates]
        /\ task[a] \in {"landed", "stopped"} /\ task[a] \in TaskStates
    BY <1>4, AttemptFacts DEF Answered, Unanswered
  <2>2. r \in AttemptStates /\ r.at = "settling" /\ r.model = attempt[a].model
    <3>1. (task[a] = "landed") \in BOOLEAN
      OBVIOUS
    <3> QED BY <2>1, <3>1 DEF AttemptStates
  <2>3. /\ attempt' = [attempt EXCEPT ![a] = r] /\ Forget(attempt[a].model)
        /\ UNCHANGED <<cacheVars, attempts, task>>
    BY <1>4 DEF Answered
  <2>4. task' = [task EXCEPT ![a] = task[a]]
    BY <2>1, <2>3
  <2> HIDE DEF r
  <2>5. attempt[a].at \in Unanswered /\ r.at \notin Unanswered
    BY <2>1, <2>2 DEF Unanswered
  <2>6. PageInv'
    BY <2>1, <2>2, <2>3, <2>4, <2>5, AttemptMoves DEF Forget
  <2>7. CacheParted'
    BY <2>1, <2>3, VerbInv DEF cacheVars, settings, Unanswered
  <2> QED BY <2>6, <2>7
<1>5. CASE Registers(a) \/ TransferFails(a)
  <2>1. UNCHANGED <<cacheVars, page>>
    BY <1>5 DEF Registers, TransferFails
  <2>2. PageInv'
    <3>1. CASE Registers(a)
      BY <2>1, <3>1, TaskMoves DEF Registers, TaskStates
    <3>2. CASE TransferFails(a)
      BY <2>1, <3>2, TaskMoves DEF TransferFails, TaskStates
    <3> QED BY <1>5, <3>1, <3>2
  <2>3. CacheParted'
    BY <2>1, SettingsInv, ChoiceTyped DEF cacheVars, settings
  <2> QED BY <2>2, <2>3
<1>6. CASE Lands(a)
  <2>1. TaskGoes(a, "live", "landed") /\ UNCHANGED <<settings, cache, page>>
    BY <1>6 DEF Lands
  <2>2. PageInv'
    BY <2>1, TaskMoves DEF TaskStates
  <2>3. attempt[a].model \in Models
    BY <2>1, AttemptFacts DEF TaskGoes, Unanswered
  <2>4. CacheParted'
    <3>1. CASE UNCHANGED <<files, seen>>
      BY <2>1, <3>1, SettingsInv, ChoiceTyped DEF settings
    <3>2. CASE /\ version < MaxVersions /\ version' = version + 1
               /\ Files([disk EXCEPT ![attempt[a].model] = version'])
      BY <2>1, <2>3, <3>2, LandsInv
    <3> QED BY <1>6, <3>1, <3>2 DEF Lands
  <2> QED BY <2>2, <2>4
<1> QED BY <1>1, <1>2, <1>3, <1>4, <1>5, <1>6 DEF PageStep

LEMMA LocalNextInv == LocalParted /\ [LocalNext]_localVars => LocalParted'
<1> SUFFICES ASSUME LocalParted, [LocalNext]_localVars PROVE LocalParted'
  OBVIOUS
<1>1. CASE CacheStep /\ UNCHANGED <<page, task>>
  BY <1>1, CacheStepInv, PageStutter DEF LocalParted
<1>2. ASSUME NEW m \in Models, ElsewhereRemoves(m), UNCHANGED <<page, task>>
      PROVE  LocalParted'
  <2>1. /\ Files([disk EXCEPT ![m] = 0]) /\ UNCHANGED <<version, settings, cache>>
    BY <1>2 DEF ElsewhereRemoves
  <2>2. active' \in Models \cup {Nothing} /\ UNCHANGED policy
    BY <2>1, ChoiceTyped DEF LocalParted, settings
  <2> QED BY <1>2, <2>1, <2>2, RemovedInv, PageStutter DEF LocalParted
<1>3. CASE UNCHANGED localVars
  <2>1. UNCHANGED <<files, cache, seen, page, task>> /\ UNCHANGED settings
    BY <1>3 DEF localVars, cacheVars
  <2> QED BY <2>1, ChoiceTyped, SettingsInv, PageStutter DEF LocalParted, settings
<1> QED BY <1>1, <1>2, <1>3, PersonInv, AttemptInv DEF LocalNext

LEMMA LocalInitInv == LocalInit => LocalParted
<1> SUFFICES ASSUME LocalInit PROVE LocalParted
  OBVIOUS
<1>1. /\ version = 1 /\ 1 \in Versions /\ 0 \in Versions /\ MaxVersions \in Nat
      /\ disk \in [Models -> 0 .. version]
  BY VersionsAssumption DEF LocalInit, CacheInit, Versions
<1>2. /\ call = [c \in Calls |-> Resting] /\ seen = [c \in Calls |-> {}]
      /\ resident = Nothing /\ lock = Nothing /\ active = Nothing /\ policy \in Policies
  BY DEF LocalInit, CacheInit
<1>3. ResidentInv
  BY <1>1, <1>2 DEF ResidentInv, Fingerprinted
<1>4. ASSUME NEW c \in Calls PROVE CallInv(c)
  <2>1. call[c] = Resting /\ seen[c] = {} /\ lock # c
    BY <1>2, NothingAssumption
  <2>2. Resting \in CallStates /\ Resting.at = "idle" /\ Resting.identity = 0
    BY RestingTyped DEF Resting
  <2> QED BY <1>1, <2>1, <2>2 DEF CallInv, Busy
<1>5. CacheParted
  BY <1>2, <1>3, <1>4, RestingTyped DEF CacheParted
<1>6. /\ attempts = 0 /\ transfers = [m \in Models |-> Nothing]
      /\ attempt = [a \in Attempts |-> Unused] /\ task = [a \in Attempts |-> "none"]
  BY DEF LocalInit
<1>7. Unused \in AttemptStates /\ Unused.at = "none" /\ "none" \in TaskStates
  BY DEF Unused, AttemptStates, TaskStates
<1>8. PageTyped
  <2>1. ASSUME NEW a \in Attempts PROVE (attempt[a].at = "none" <=> a > attempts)
    BY <1>6, <1>7, AttemptsAssumption DEF Attempts
  <2> QED BY <1>6, <1>7, <2>1, AttemptsAssumption DEF PageTyped
<1>9. HoldsItsModel
  BY <1>6, <1>7 DEF HoldsItsModel
<1> QED BY <1>5, <1>8, <1>9 DEF LocalParted, PageInv

\* The inductive invariant of the models, their files and their transfers.
THEOREM LocalInvariance == LocalSpec => []LocalInv
<1>1. LocalSpec => []LocalParted
  BY LocalInitInv, LocalNextInv, PTL DEF LocalSpec
<1> QED BY <1>1, LocalParts, PTL

\* The types of model_cache.rs's state and of the page's map of transfers: the lock is
\* held by exactly the call that loads or runs.
THEOREM ModelsTypeCorrect == LocalSpec => []LocalTypeOK
<1>1. LocalInv => LocalTypeOK
  BY DEF LocalInv
<1> QED BY <1>1, LocalInvariance, PTL

\* model_cache.rs:17-22, 228-240: however files come and go while a call resolves, waits
\* and loads, what runs is the model its answer names, on a file that was there.
THEOREM AnswersNameWhatRan == LocalSpec => []NamesWhatRan
<1>1. LocalInv => NamesWhatRan
  BY DEF LocalInv, CacheInv
<1> QED BY <1>1, LocalInvariance, PTL

\* local-models.svelte.ts:48-51: two tasks never fetch the same file.
THEOREM OneTaskFetches == LocalSpec => []OneTransferPerModel
<1>1. LocalInv => OneTransferPerModel
  <2> SUFFICES ASSUME LocalInv, NEW a \in Attempts, NEW b \in Attempts,
                      a # b, attempt[a].model = attempt[b].model,
                      task[a] \in {"starting", "live"}, task[b] \in {"starting", "live"}
               PROVE  FALSE
    BY DEF OneTransferPerModel
  <2>1. attempt[a].at = "transferring" /\ attempt[b].at = "transferring"
    BY DEF LocalInv, HoldsItsModel
  <2>2. transfers[attempt[a].model].id = a /\ transfers[attempt[b].model].id = b
    BY <2>1 DEF LocalInv, HoldsItsModel
  <2> QED BY <2>2
<1> QED BY <1>1, LocalInvariance, PTL

------------------------------------------------------------------------
(* The directory of blobs. *)

USE WritersAssumption, NoneAssumption, LossesAssumption, SyncAssumption

------------------------------------------------------------------------
(* Types. *)

\* The fields of a directory, and that changing one leaves a directory.
LEMMA DirFields ==
  ASSUME NEW d \in Dirs
  PROVE  /\ d.at \in {"nowhere", "staged", "final"} /\ d.data \in {"none", "part", "all"}
         /\ d.meta \in BOOLEAN /\ d.kept \subseteq {"data", "meta", "names", "place"}
         /\ \A x \in {"nowhere", "staged", "final"} : [d EXCEPT !.at = x] \in Dirs
         /\ \A x \in {"none", "part", "all"} : [d EXCEPT !.data = x] \in Dirs
         /\ \A x \in BOOLEAN : [d EXCEPT !.meta = x] \in Dirs
         /\ \A x \in SUBSET {"data", "meta", "names", "place"} : [d EXCEPT !.kept = x] \in Dirs
  BY DEF Dirs

\* A host's sweep is over, or a set of recordings.
LEMMA SweepsAre ==
  /\ None \in Sweeps /\ \A s \in SUBSET Captures : s \in Sweeps
  /\ \A s \in Sweeps : s = None \/ s \subseteq Captures
  BY DEF Sweeps

\* Every step keeps the variables in their types.
LEMMA TypeStep == ASSUME TypeOK, Next PROVE TypeOK'
<1> USE DEF TypeOK, Writers, Steps, InFlight, Rungs, Answers, Goes
<1>a. Absent \in Dirs
  BY DEF Absent, Dirs
<1>1. ASSUME NEW h \in Hosts, NEW p \in Pids, Launch(h, p) PROVE TypeOK'
  <2>1. Staged \in Sweeps
    BY SweepsAre DEF Staged
  <2> QED BY <1>1, <2>1 DEF Launch
<1>2. ASSUME NEW h \in Hosts, Sweep(h) PROVE TypeOK'
  <2>1. \A c \in Captures : sweeping[h] # None => sweeping[h] \ {c} \in Sweeps
    BY SweepsAre
  <2>2. sweeping[h] # None => sweeping[h] \subseteq Captures
    BY SweepsAre
  <2> QED BY <1>2, <1>a, <2>1, <2>2 DEF Sweep
<1>3. ASSUME NEW h \in Hosts, SweepEnds(h) PROVE TypeOK'
  <2>1. root' \in BOOLEAN
    BY <1>3 DEF SweepEnds
  <2> QED BY <1>3, <2>1, SweepsAre DEF SweepEnds
<1>4. ASSUME NEW h \in Hosts, HostDies(h) PROVE TypeOK'
  BY <1>4, SweepsAre DEF HostDies, Stopped
<1>5. ASSUME NEW h \in Hosts, NEW c \in Captures, Prepare(h, c) PROVE TypeOK'
  BY <1>5 DEF Prepare
<1>6. ASSUME NEW p \in Pids, PidReused(p) PROVE TypeOK'
  BY <1>6 DEF PidReused
<1>7. ASSUME NEW c \in Captures, Stage(c) PROVE TypeOK'
  <2>1. [[dir[c] EXCEPT !.at = "staged"] EXCEPT !.data = "part"] \in Dirs
    BY DirFields
  <2> QED BY <1>7, <2>1 DEF Stage
<1>8. ASSUME NEW c \in Captures, Finalize(c) PROVE TypeOK'
  BY <1>8, DirFields DEF Finalize
<1>9. ASSUME NEW c \in Captures, Discard(c) PROVE TypeOK'
  BY <1>9, <1>a DEF Discard
<1>10. ASSUME NEW c \in Captures, Publish(c) PROVE TypeOK'
  <2>1. ASSUME NEW from, NEW to \in Steps, NEW held \in SUBSET {"data", "meta", "names", "place"},
               Climbs(c, from, to, held)
        PROVE  TypeOK'
    <3>1. dir[c].kept \cup held \in SUBSET {"data", "meta", "names", "place"}
      BY DirFields
    <3>2. [dir[c] EXCEPT !.kept = @ \cup held] \in Dirs
      BY <3>1, DirFields
    <3> QED BY <2>1, <3>2 DEF Climbs
  <2>2. CASE SyncData(c)
    BY <2>1, <2>2 DEF SyncData
  <2>3. CASE SyncMetadata(c)
    BY <2>1, <2>3 DEF SyncMetadata
  <2>4. CASE SyncNames(c)
    BY <2>1, <2>4 DEF SyncNames, OnDirectory
  <2>5. CASE Describe(c)
    BY <2>5, DirFields DEF Describe
  <2>6. CASE Rename(c)
    BY <2>6, DirFields DEF Rename
  <2>7. CASE SyncRoot(c)
    <3>1. dir[c].kept \cup OnDirectory({"place"}) \in SUBSET {"data", "meta", "names", "place"}
      BY DirFields DEF OnDirectory
    <3>2. [dir[c] EXCEPT !.kept = @ \cup OnDirectory({"place"})] \in Dirs
      BY <3>1, DirFields
    <3> QED BY <2>7, <3>2 DEF SyncRoot
  <2>8. CASE PublishFails(c)
    BY <2>8, <1>a DEF PublishFails
  <2> QED BY <1>10, <2>2, <2>3, <2>4, <2>5, <2>6, <2>7, <2>8 DEF Publish
<1>11. ASSUME NEW w \in Puts, PutBegins(w) PROVE TypeOK'
  <2>1. [[dir[w] EXCEPT !.at = "staged"] EXCEPT !.data = "part"] \in Dirs
    BY DirFields
  <2> QED BY <1>11, <2>1 DEF PutBegins
<1>12. ASSUME NEW w \in Puts, PutWrites(w) PROVE TypeOK'
  <2>1. [[dir[w] EXCEPT !.data = "all"] EXCEPT !.meta = TRUE] \in Dirs
    BY DirFields
  <2> QED BY <1>12, <2>1 DEF PutWrites
<1>13. ASSUME NEW w \in Puts, PutRenames(w) PROVE TypeOK'
  BY <1>13, DirFields DEF PutRenames
<1>14. ASSUME NEW w \in Puts, PutFails(w) PROVE TypeOK'
  BY <1>14, <1>a DEF PutFails
<1>15. ASSUME NEW w \in Puts, SidecarDies(w) PROVE TypeOK'
  BY <1>15 DEF SidecarDies, Stopped
<1>16. ASSUME NEW w \in Writers, Delete(w) PROVE TypeOK'
  <2>1. [dir[w] EXCEPT !.data = "none"] \in Dirs /\ [dir[w] EXCEPT !.meta = FALSE] \in Dirs
    BY DirFields
  <2>2. dir' \in [Writers -> Dirs]
    BY <1>16, <1>a, <2>1 DEF Delete
  <2> QED BY <1>16, <2>2 DEF Delete
<1>17. CASE PowerLoss
  <2>1. ASSUME NEW d \in Dirs PROVE Found(d) \subseteq Dirs
    <3>1. CASE d.at # "final"
      BY <1>a, <3>1, DirFields DEF Found
    <3>2. CASE d.at = "final"
      <4>1. [d EXCEPT !.at = "staged"] \in Dirs
        BY DirFields
      <4>2. \A e \in [at : {"final"}, data : {"none", "part", "all"}, meta : BOOLEAN, kept : {d.kept}] : e \in Dirs
        BY DirFields DEF Dirs
      <4>3. \A e \in Found(d) : \/ e = [d EXCEPT !.at = "staged"]
                               \/ e \in [at : {"final"}, data : {"none", "part", "all"}, meta : BOOLEAN, kept : {d.kept}]
        BY <3>2, DirFields DEF Found
      <4> QED BY <4>1, <4>2, <4>3
    <3> QED BY <3>1, <3>2
  <2>2. dir' \in [Writers -> Dirs]
    BY <1>17, <2>1 DEF PowerLoss
  <2>3. step' \in [Writers -> Steps]
    BY <1>17 DEF PowerLoss, Stopped
  <2>4. root' \in BOOLEAN
    BY <1>17 DEF PowerLoss
  <2> QED BY <1>17, <2>2, <2>3, <2>4, SweepsAre DEF PowerLoss
<1> QED
  BY <1>1, <1>2, <1>3, <1>4, <1>5, <1>6, <1>7, <1>8, <1>9, <1>10, <1>11, <1>12, <1>13, <1>14,
     <1>15, <1>16, <1>17 DEF Next

------------------------------------------------------------------------
(* The invariant. *)

\* What a loss of power may do to a directory: nothing moves to its blob's name, a
\* rename that was synced stays, and what was synced with its name is found.
LEMMA FoundIs ==
  ASSUME NEW d \in Dirs, NEW e \in Found(d)
  PROVE  /\ e.at = "final" =>
               /\ d.at = "final" /\ e.kept = d.kept
               /\ {"data", "names"} \subseteq d.kept => e.data = d.data
               /\ {"meta", "names"} \subseteq d.kept => e.meta = d.meta
         /\ d.at = "final" /\ "place" \in d.kept => e.at = "final"
         /\ d.at = "nowhere" => e.at = "nowhere"
<1>1. CASE d.at # "final"
  <2>1. d.at \in {"nowhere", "staged"} /\ Absent.at = "nowhere"
    BY <1>1, DirFields DEF Absent
  <2>2. CASE d.at = "nowhere"
    BY <2>2 DEF Found
  <2>3. CASE d.at = "staged"
    <3>1. e = d \/ e = Absent
      BY <2>3 DEF Found
    <3> QED BY <2>1, <2>3, <3>1
  <2> QED BY <2>1, <2>2, <2>3
<1>2. CASE d.at = "final"
  <2> DEFINE datas == IF {"data", "names"} \subseteq d.kept THEN {d.data} ELSE {"none", "part", "all"}
             metas == IF {"meta", "names"} \subseteq d.kept THEN {d.meta} ELSE BOOLEAN
             whole == [at : {"final"}, data : datas, meta : metas, kept : {d.kept}]
  <2>1. Found(d) = whole \cup (IF "place" \in d.kept THEN {} ELSE {[d EXCEPT !.at = "staged"]})
    BY <1>2 DEF Found
  <2>2. CASE e \in whole
    BY <1>2, <2>2
  <2>3. CASE e = [d EXCEPT !.at = "staged"] /\ "place" \notin d.kept
    BY <1>2, <2>3 DEF Dirs
  <2> QED BY <2>1, <2>2, <2>3
<1> QED BY <1>1, <1>2

\* What IInv says beside the types.
Guarded ==
    /\ HasItsHost /\ CaptureInPlace /\ Climbed /\ CaptureIsWhole /\ CaptureAnswers
    /\ PutInPlace /\ OnePut /\ PutIsWhole

\* Every step of a host, a writer, a deletion or a fault keeps what IInv says.
LEMMA GuardedStep == ASSUME IInv, Next PROVE Guarded'
<1> USE DEF IInv, Guarded, Writers, InFlight, Rungs, Goes, Climbs, Answers, HasItsHost,
            CaptureInPlace, Climbed, CaptureIsWhole, CaptureAnswers, PutInPlace, OnePut,
            PutIsWhole, Durable
<1>0. /\ step \in [Writers -> Steps] /\ dir \in [Writers -> Dirs]
      /\ owner \in [Captures -> Pids \cup {None}] /\ pid \in [Hosts -> Pids \cup {None}]
      /\ answer \in [Writers -> Answers \cup {None}] /\ losses \in Nat
  BY DEF TypeOK
<1>1. ASSUME NEW h \in Hosts, NEW p \in Pids, Launch(h, p) PROVE Guarded'
  BY <1>1, <1>0 DEF Launch, Alive, Running
<1>2. ASSUME NEW h \in Hosts, Sweep(h) PROVE Guarded'
  <2>1. /\ UNCHANGED <<pid, strangers, step, owner, answer, doomed, losses>>
        /\ dir' \in [Writers -> Dirs]
        /\ \A w \in Writers :
              \/ dir'[w] = dir[w]
              \/ /\ w \in Captures /\ dir[w].at = "staged" /\ owner[w] \notin Alive
                 /\ dir'[w].at = "nowhere"
    <3>1. Absent \in Dirs /\ Absent.at = "nowhere"
      BY DEF Absent, Dirs
    <3>2. sweeping[h] # None => sweeping[h] \subseteq Captures
      BY SweepsAre DEF TypeOK
    <3> QED BY <1>2, <1>0, <3>1, <3>2 DEF Sweep
  <2>2. \A c \in Captures : step[c] \in {"capturing"} \cup Rungs => owner[c] \in Alive
    BY DEF Alive, Running
  <2> QED BY <1>0, <2>1, <2>2
<1>3. ASSUME NEW h \in Hosts, SweepEnds(h) PROVE Guarded'
  BY <1>3, <1>0 DEF SweepEnds
<1>4. ASSUME NEW h \in Hosts, HostDies(h) PROVE Guarded'
  BY <1>4, <1>0 DEF HostDies, Stopped
<1>5. ASSUME NEW h \in Hosts, NEW c \in Captures, Prepare(h, c) PROVE Guarded'
  BY <1>5, <1>0 DEF Prepare
<1>6. ASSUME NEW p \in Pids, PidReused(p) PROVE Guarded'
  BY <1>6, <1>0 DEF PidReused
<1>7. ASSUME NEW c \in Captures, Stage(c) PROVE Guarded'
  <2>1. /\ UNCHANGED <<pid, owner, doomed, losses>> /\ step[c] = "preparing"
        /\ \A w \in Writers \ {c} : UNCHANGED <<step[w], dir[w], answer[w]>>
        /\ \/ step'[c] = "capturing" /\ dir'[c].at = "staged" /\ answer'[c] = answer[c]
           \/ step'[c] = "over" /\ dir'[c] = dir[c] /\ answer'[c] = "unstaged"
    <3>1. dir[c] \in Dirs
      BY <1>0
    <3>2. [[dir[c] EXCEPT !.at = "staged"] EXCEPT !.data = "part"].at = "staged"
      BY <3>1 DEF Dirs
    <3> QED BY <1>7, <1>0, <3>2 DEF Stage
  <2> QED BY <1>0, <2>1
<1>8. ASSUME NEW c \in Captures, Finalize(c) PROVE Guarded'
  BY <1>8, <1>0 DEF Finalize
<1>9. ASSUME NEW c \in Captures, Discard(c) PROVE Guarded'
  BY <1>9, <1>0 DEF Discard, Absent
<1>10. ASSUME NEW c \in Captures, SyncData(c) PROVE Guarded'
  BY <1>10, <1>0 DEF SyncData
<1>11. ASSUME NEW c \in Captures, Describe(c) PROVE Guarded'
  BY <1>11, <1>0 DEF Describe
<1>12. ASSUME NEW c \in Captures, SyncMetadata(c) PROVE Guarded'
  BY <1>12, <1>0 DEF SyncMetadata
<1>13. ASSUME NEW c \in Captures, SyncNames(c) PROVE Guarded'
  BY <1>13, <1>0 DEF SyncNames, OnDirectory
<1>14. ASSUME NEW c \in Captures, Rename(c) PROVE Guarded'
  BY <1>14, <1>0 DEF Rename
<1>15. ASSUME NEW c \in Captures, SyncRoot(c) PROVE Guarded'
  BY <1>15, <1>0 DEF SyncRoot, OnDirectory
<1>16. ASSUME NEW c \in Captures, PublishFails(c) PROVE Guarded'
  BY <1>16, <1>0 DEF PublishFails, Absent
<1>17. ASSUME NEW w \in Puts, PutBegins(w) PROVE Guarded'
  <2>1. /\ UNCHANGED <<pid, owner, doomed, losses>> /\ step[w] = "idle"
        /\ \A v \in Writers \ {w} : UNCHANGED <<step[v], dir[v], answer[v]>>
        /\ \/ step'[w] = "writing" /\ dir'[w].at = "staged" /\ answer'[w] = answer[w]
           \/ step'[w] = "over" /\ dir'[w] = dir[w] /\ answer'[w] = "exists"
    <3>1. dir[w] \in Dirs
      BY <1>0
    <3>2. [[dir[w] EXCEPT !.at = "staged"] EXCEPT !.data = "part"].at = "staged"
      BY <3>1 DEF Dirs
    <3> QED BY <1>17, <1>0, <3>2 DEF PutBegins
  <2> QED BY <1>0, <2>1
<1>18. ASSUME NEW w \in Puts, PutWrites(w) PROVE Guarded'
  BY <1>18, <1>0 DEF PutWrites
<1>19. ASSUME NEW w \in Puts, PutRenames(w) PROVE Guarded'
  BY <1>19, <1>0 DEF PutRenames, Blob, Same
<1>20. ASSUME NEW w \in Puts, PutFails(w) PROVE Guarded'
  BY <1>20, <1>0 DEF PutFails, Absent
<1>21. ASSUME NEW w \in Puts, SidecarDies(w) PROVE Guarded'
  BY <1>21, <1>0 DEF SidecarDies, Stopped
<1>22. ASSUME NEW w \in Writers, Delete(w) PROVE Guarded'
  BY <1>22, <1>0 DEF Delete, Absent
<1>23. CASE PowerLoss
  <2>1. /\ UNCHANGED <<owner, answer, doomed>> /\ losses' = losses + 1
        /\ \A w \in Writers : step'[w] = IF step[w] \in InFlight THEN "dead" ELSE step[w]
        /\ \A w \in Writers : dir'[w] \in Found(dir[w])
    BY <1>23, <1>0 DEF PowerLoss, Stopped
  <2>2. \A w \in Writers :
          /\ dir'[w].at = "final" =>
               /\ dir[w].at = "final" /\ dir'[w].kept = dir[w].kept
               /\ {"data", "names"} \subseteq dir[w].kept => dir'[w].data = dir[w].data
               /\ {"meta", "names"} \subseteq dir[w].kept => dir'[w].meta = dir[w].meta
          /\ dir[w].at = "final" /\ "place" \in dir[w].kept => dir'[w].at = "final"
          /\ dir[w].at = "nowhere" => dir'[w].at = "nowhere"
    BY <1>0, <2>1, FoundIs
  <2>3. HasItsHost' /\ Climbed'
    BY <1>0, <2>1
  <2>4. CaptureInPlace'
    BY <1>0, <2>1, <2>2
  <2>5. CaptureIsWhole'
    BY <1>0, <2>1, <2>2
  <2>6. CaptureAnswers'
    BY <1>0, <2>1, <2>2
  <2>7. PutInPlace'
    BY <1>0, <2>1, <2>2
  <2>8. OnePut' /\ PutIsWhole'
    BY <1>0, <2>1, <2>2
  <2> QED BY <2>3, <2>4, <2>5, <2>6, <2>7, <2>8
<1> QED
  BY <1>1, <1>2, <1>3, <1>4, <1>5, <1>6, <1>7, <1>8, <1>9, <1>10, <1>11, <1>12, <1>13, <1>14,
     <1>15, <1>16, <1>17, <1>18, <1>19, <1>20, <1>21, <1>22, <1>23 DEF Next, Publish

\* The empty directory satisfies the invariant.
LEMMA InitInv == ASSUME Init PROVE IInv
<1> USE DEF Init, Writers, Absent, Rungs, InFlight, Answers, Steps, Durable
<1>1. Absent \in Dirs
  BY DEF Dirs
<1>2. TypeOK
  <2>1. sweeping \in [Hosts -> Sweeps] /\ root \in BOOLEAN
    BY SweepsAre
  <2>2. step \in [Writers -> Steps] /\ dir \in [Writers -> Dirs]
    BY <1>1
  <2>3. losses \in 0 .. MaxLosses
    OBVIOUS
  <2> QED BY <2>1, <2>2, <2>3 DEF TypeOK
<1>3. HasItsHost /\ CaptureInPlace /\ Climbed /\ CaptureIsWhole
  BY DEF HasItsHost, CaptureInPlace, Climbed, CaptureIsWhole
<1>4. CaptureAnswers /\ PutInPlace /\ OnePut /\ PutIsWhole
  BY DEF CaptureAnswers, PutInPlace, OnePut, PutIsWhole
<1> QED BY <1>2, <1>3, <1>4 DEF IInv

\* A step that changes nothing keeps the invariant.
LEMMA StutterInv == ASSUME IInv, UNCHANGED vars PROVE IInv'
  BY DEF vars, IInv, TypeOK, HasItsHost, CaptureInPlace, Climbed, CaptureIsWhole, CaptureAnswers,
     PutInPlace, OnePut, PutIsWhole, Durable

\* The inductive invariant holds in every behaviour.
THEOREM Invariance == Spec => []IInv
<1>1. Init => IInv
  BY InitInv
<1>2. IInv /\ [Next]_vars => IInv'
  <2> SUFFICES ASSUME IInv, [Next]_vars PROVE IInv'
    OBVIOUS
  <2>1. CASE Next
    <3>1. TypeOK'
      BY <2>1, TypeStep DEF IInv
    <3> QED BY <2>1, <3>1, GuardedStep DEF IInv, Guarded
  <2>2. CASE UNCHANGED vars
    BY <2>2, StutterInv
  <2> QED BY <2>1, <2>2
<1> QED BY <1>1, <1>2, PTL DEF Spec

------------------------------------------------------------------------
(* What follows. *)

\* blob.rs:301-310 whatever pids were used before and whoever dies, no launch takes the
\* audio of a recording that another live process is still making.
THEOREM LivingAreSpared == Spec => []SweepSparesTheLiving
<1>1. IInv => SweepSparesTheLiving
  BY DEF IInv, CaptureInPlace, SweepSparesTheLiving, Rungs
<1> QED BY <1>1, Invariance, PTL

\* blob.rs:16-21, bun.ts:46-48 where directories are synced, what has a blob's name is the
\* whole of one: no crash and no loss of power shows a part.
THEOREM VisibleIsWhole == ASSUME DirectorySyncs PROVE Spec => []WholeWhenVisible
<1>1. IInv => WholeWhenVisible
  BY DEF IInv, CaptureIsWhole, PutIsWhole, WholeWhenVisible, Lasting, Writers, Durable
<1> QED BY <1>1, Invariance, PTL

\* blob.rs:202-210, blob-store.ts:67-74 there too, a caller that was told its bytes are
\* stored finds them and nobody else's, and one that was told they are not finds nothing.
THEOREM CallersAreToldTheTruth == ASSUME DirectorySyncs PROVE Spec => []AnswersAreTrue
<1>1. IInv => AnswersAreTrue
  BY DEF IInv, CaptureAnswers, PutInPlace, OnePut, PutIsWhole, AnswersAreTrue, Lasting, Writers,
         Blob, Same, Durable
<1> QED BY <1>1, Invariance, PTL

\* blob.rs:471-482 where no directory can be synced, the same is true until a machine loses
\* its power: crashes of hosts and sidecars alone never falsify it.
THEOREM CrashesAloneAreHarmless ==
    Spec => [](losses = 0 => WholeWhenVisible /\ AnswersAreTrue)
<1>1. IInv => (losses = 0 => WholeWhenVisible)
  BY DEF IInv, CaptureIsWhole, PutIsWhole, WholeWhenVisible, Lasting, Writers, Durable
<1>2. IInv => (losses = 0 => AnswersAreTrue)
  BY DEF IInv, CaptureAnswers, PutInPlace, OnePut, PutIsWhole, AnswersAreTrue, Lasting, Writers,
         Blob, Same, Durable
<1> QED BY <1>1, <1>2, Invariance, PTL
=============================================================================
