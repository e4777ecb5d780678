------------------------ MODULE HostRecorder_proofs ------------------------
(***************************************************************************)
(* What the host's recorder guarantees for every number of windows,        *)
(* recordings, chunks and reloads.  The steps are the commands, the capture *)
(* workers, the audio callbacks, the main thread and the pages; a lemma     *)
(* says what each does to the recording it is about, a second one that the  *)
(* invariant is kept.                                                      *)
(***************************************************************************)
EXTENDS HostRecorder, TLAPS, FiniteSetTheorems

USE WindowsAssumption, BoundsAssumption, QueueAssumption, SlotAssumption DEF Recordings, MainThread

------------------------------------------------------------------------
(* Types. *)

\* The fields of a call, and what becomes of it.
LEMMA CallFields ==
  /\ Quiet \in Call /\ Quiet.at = "idle" /\ Quiet.kind = "none" /\ Quiet.by = None
  /\ \A kind \in {"start", "stop", "cancel"}, w \in Windows :
        /\ Calling(kind, w) \in Call /\ Calling(kind, w).at = "asking"
        /\ Calling(kind, w).kind = kind /\ Calling(kind, w).by = w
  /\ \A c \in Call : \/ c = Quiet
                     \/ /\ c.at \in {"asking", "opening", "joining", "publishing"}
                        /\ c.kind \in {"start", "stop", "cancel"} /\ c.by \in Windows
                        /\ c.heard \in BOOLEAN
<1>1. Quiet \in Call /\ Quiet.at = "idle" /\ Quiet.kind = "none" /\ Quiet.by = None
  BY DEF Call, Quiet
<1>2. ASSUME NEW kind \in {"start", "stop", "cancel"}, NEW w \in Windows
      PROVE  /\ Calling(kind, w) \in Call /\ Calling(kind, w).at = "asking"
             /\ Calling(kind, w).kind = kind /\ Calling(kind, w).by = w
  BY DEF Call, Calling
<1>3. ASSUME NEW c \in Call
      PROVE  \/ c = Quiet
             \/ /\ c.at \in {"asking", "opening", "joining", "publishing"}
                /\ c.kind \in {"start", "stop", "cancel"} /\ c.by \in Windows
                /\ c.heard \in BOOLEAN
  BY DEF Call
<1> QED BY <1>1, <1>2, <1>3

\* What becomes of a call's fields when it goes on, and when its page is gone.
LEMMA CallMoves ==
  ASSUME NEW c \in Call
  PROVE  /\ \A at \in {"asking", "opening", "joining", "publishing"} :
               /\ c # Quiet => [c EXCEPT !.at = at] \in Call
               /\ [c EXCEPT !.at = at].at = at /\ [c EXCEPT !.at = at].kind = c.kind
               /\ [c EXCEPT !.at = at].by = c.by
         /\ [c EXCEPT !.heard = FALSE].at = c.at /\ [c EXCEPT !.heard = FALSE].kind = c.kind
         /\ [c EXCEPT !.heard = FALSE].by = c.by
         /\ c # Quiet => [c EXCEPT !.heard = FALSE] \in Call
<1>1. CASE c = Quiet
  BY <1>1 DEF Quiet
<1>2. CASE c \in [at : {"asking", "opening", "joining", "publishing"},
                  kind : {"start", "stop", "cancel"}, by : Windows, heard : BOOLEAN]
  <2>1. \A at \in {"asking", "opening", "joining", "publishing"} :
           /\ [c EXCEPT !.at = at] \in Call
           /\ [c EXCEPT !.at = at].at = at /\ [c EXCEPT !.at = at].kind = c.kind
           /\ [c EXCEPT !.at = at].by = c.by
    BY <1>2 DEF Call
  <2>2. /\ [c EXCEPT !.heard = FALSE].at = c.at /\ [c EXCEPT !.heard = FALSE].kind = c.kind
        /\ [c EXCEPT !.heard = FALSE].by = c.by /\ [c EXCEPT !.heard = FALSE] \in Call
    BY <1>2 DEF Call
  <2> QED BY <2>1, <2>2
<1> QED BY <1>2 DEF Call

\* The fields of a recording's audio, and that changing them leaves audio.
LEMMA AudioFields ==
  ASSUME NEW a \in Audio
  PROVE  /\ a.queued \in Nat /\ a.accepted \in Nat /\ a.written \in Nat
         /\ a.file \in {"none", "staged", "finished", "published", "gone"}
         /\ \A q \in Nat : [a EXCEPT !.queued = q] \in Audio
         /\ \A q \in Nat, n \in Nat :
               /\ [a EXCEPT !.queued = q, !.accepted = n] \in Audio
               /\ [a EXCEPT !.queued = q, !.written = n] \in Audio
         /\ \A f \in {"none", "staged", "finished", "published", "gone"}, q \in Nat :
               /\ [a EXCEPT !.file = f] \in Audio
               /\ [a EXCEPT !.queued = q, !.file = f] \in Audio
  BY DEF Audio

\* What a command to the worker makes of a recording's audio.
LEMMA Drained ==
  ASSUME NEW a \in Audio
  PROVE  /\ [a EXCEPT !.queued = 0, !.written = @ + a.queued] \in Audio
         /\ [[a EXCEPT !.queued = 0, !.written = @ + a.queued] EXCEPT !.file = "finished"] \in Audio
<1>1. a.written + a.queued \in Nat
  BY DEF Audio
<1>2. [a EXCEPT !.queued = 0, !.written = @ + a.queued] \in Audio
  BY <1>1 DEF Audio
<1> QED BY <1>2, AudioFields

\* What is left of a recording's audio when its queue is dropped.
LEMMA Dropped ==
  ASSUME NEW a \in Audio
  PROVE  /\ [a EXCEPT !.queued = 0] \in Audio
         /\ [[a EXCEPT !.queued = 0] EXCEPT !.file = "finished"] \in Audio
<1>2. [a EXCEPT !.queued = 0] \in Audio
  BY DEF Audio
<1> QED BY <1>2, AudioFields

\* What a window knows when it is fresh, and when it holds a recording.
LEMMA KnowledgeFields ==
  /\ Fresh \in Knowledge
  /\ \A r \in Recordings \cup {0}, told \in BOOLEAN :
        Holding(r, told) \in Knowledge /\ Holding(r, told).holds = r
  /\ \A k \in Knowledge :
        /\ k.holds \in Recordings \cup {0}
        /\ \A b \in BOOLEAN :
              /\ [k EXCEPT !.listening = b] \in Knowledge /\ [k EXCEPT !.told = b] \in Knowledge
              /\ [k EXCEPT !.listening = b, !.checking = b] \in Knowledge
              /\ [k EXCEPT !.checking = FALSE, !.told = b] \in Knowledge
        /\ k.told \in BOOLEAN
  BY DEF Fresh, Holding, Knowledge

\* The fields of the slot, and that marking its end leaves a slot.
LEMMA SlotFields ==
  /\ \A s \in Slot : /\ s.id \in Recordings /\ s.owner \in Windows /\ s.ended \in BOOLEAN
                     /\ [s EXCEPT !.ended = TRUE] \in Slot
                     /\ [s EXCEPT !.ended = TRUE].id = s.id
                     /\ [s EXCEPT !.ended = TRUE].owner = s.owner
                     /\ [s EXCEPT !.ended = TRUE].ended = TRUE
  /\ \A r \in Recordings, w \in Windows : [id |-> r, owner |-> w, ended |-> FALSE] \in Slot
  BY DEF Slot

\* A call that goes on, a call that is not heard any more, and a command that is sent.
LEMMA Goes ==
  ASSUME call \in [Recordings -> Call], NEW r \in Recordings, call[r] # Quiet,
         NEW at \in {"asking", "opening", "joining", "publishing"},
         call' = [call EXCEPT ![r].at = at]
  PROVE  /\ call' \in [Recordings -> Call]
         /\ call'[r].at = at /\ call'[r].kind = call[r].kind /\ call'[r] # Quiet
         /\ \A q \in Recordings : q # r => call'[q] = call[q]
<1>1. call' = [call EXCEPT ![r] = [call[r] EXCEPT !.at = at]]
  OBVIOUS
<1>2. call[r] \in Call
  OBVIOUS
<1>3. [call[r] EXCEPT !.at = at] \in Call
  BY <1>2, CallMoves
<1>4. [call[r] EXCEPT !.at = at].at = at /\ [call[r] EXCEPT !.at = at].kind = call[r].kind
  BY <1>2, CallMoves
<1>5. call'[r] = [call[r] EXCEPT !.at = at] /\ \A q \in Recordings : q # r => call'[q] = call[q]
  BY <1>1
<1>6. call' \in [Recordings -> Call]
  BY <1>1, <1>3
<1>7. Quiet.at = "idle"
  BY CallFields
<1> QED BY <1>4, <1>5, <1>6, <1>7

\* A page that is gone changes no call but that nobody hears its answer.
LEMMA Unheard ==
  ASSUME call \in [Recordings -> Call], NEW w \in Windows, PageGone(w)
  PROVE  /\ call' \in [Recordings -> Call]
         /\ \A r \in Recordings : /\ call'[r].at = call[r].at /\ call'[r].kind = call[r].kind
                                  /\ call[r] = Quiet => call'[r] = Quiet
<1>1. SUFFICES ASSUME NEW r \in Recordings
               PROVE  /\ call'[r] \in Call
                      /\ call'[r].at = call[r].at /\ call'[r].kind = call[r].kind
                      /\ call[r] = Quiet => call'[r] = Quiet
  BY DEF PageGone
<1>2. call[r] \in Call
  OBVIOUS
<1>3. CASE call[r].by = w
  <2>1. call'[r] = [call[r] EXCEPT !.heard = FALSE]
    BY <1>3 DEF PageGone
  <2>2. call[r] # Quiet
    BY <1>3, CallFields
  <2>3. /\ [call[r] EXCEPT !.heard = FALSE] \in Call
        /\ [call[r] EXCEPT !.heard = FALSE].at = call[r].at
        /\ [call[r] EXCEPT !.heard = FALSE].kind = call[r].kind
    BY <1>2, <2>2, CallMoves
  <2> QED BY <2>1, <2>2, <2>3
<1>4. CASE call[r].by # w
  <2>1. call'[r] = call[r]
    BY <1>4 DEF PageGone
  <2> QED BY <1>2, <2>1
<1> QED BY <1>3, <1>4

\* A command that is sent is told to one worker.
LEMMA Sent ==
  ASSUME commands \in [Recordings -> Seq({"stop", "cancel", "end"})], NEW r \in Recordings,
         NEW command \in {"stop", "cancel", "end"}, Send(r, command)
  PROVE  /\ commands' \in [Recordings -> Seq({"stop", "cancel", "end"})]
         /\ Told(r)' = Told(r) \cup {command}
         /\ \A q \in Recordings : q # r => Told(q)' = Told(q)
<1>1. Append(commands[r], command) \in Seq({"stop", "cancel", "end"})
  OBVIOUS
<1>2. commands'[r] = Append(commands[r], command)
  BY DEF Send
<1>3. Told(r)' = Told(r) \cup {command}
  <2> DEFINE s == commands[r]
             t == Append(s, command)
  <2>1. s \in Seq({"stop", "cancel", "end"})
    OBVIOUS
  <2>2. {t[i] : i \in DOMAIN t} = {s[i] : i \in DOMAIN s} \cup {command}
    <3>1. /\ Len(t) = Len(s) + 1 /\ DOMAIN t = 1 .. Len(s) + 1 /\ DOMAIN s = 1 .. Len(s)
          /\ Len(s) \in Nat /\ t[Len(s) + 1] = command
          /\ \A i \in 1 .. Len(s) : t[i] = s[i]
      BY <2>1
    <3> HIDE DEF t, s
    <3>2. ASSUME NEW i \in DOMAIN t PROVE t[i] \in {s[j] : j \in DOMAIN s} \cup {command}
      BY <3>1, <3>2
    <3>3. ASSUME NEW i \in DOMAIN s PROVE s[i] \in {t[j] : j \in DOMAIN t}
      BY <3>1, <3>3
    <3>4. command \in {t[j] : j \in DOMAIN t}
      BY <3>1
    <3> QED BY <3>2, <3>3, <3>4
  <2> QED BY <1>2, <2>2 DEF Told
<1> QED BY <1>1, <1>3 DEF Send, Told

\* A worker takes the first of what it has been told.
LEMMA Taken ==
  ASSUME commands \in [Recordings -> Seq({"stop", "cancel", "end"})], NEW r \in Recordings,
         commands[r] # <<>>, commands' = [commands EXCEPT ![r] = Tail(@)]
  PROVE  /\ Head(commands[r]) \in Told(r) /\ Told(r)' \subseteq Told(r)
         /\ Head(commands[r]) \in {"stop", "cancel", "end"}
         /\ \A q \in Recordings : q # r => Told(q)' = Told(q)
<1> DEFINE s == commands[r]
<1>1. s \in Seq({"stop", "cancel", "end"}) /\ s # <<>>
  OBVIOUS
<1>2. /\ Head(s) = s[1] /\ 1 \in DOMAIN s
      /\ \A i \in DOMAIN Tail(s) : i + 1 \in DOMAIN s /\ Tail(s)[i] = s[i + 1]
  BY <1>1
<1>3. commands'[r] = Tail(s) /\ \A q \in Recordings : q # r => commands'[q] = commands[q]
  OBVIOUS
<1>4. Head(s) \in {"stop", "cancel", "end"}
  BY <1>1
<1> HIDE DEF s
<1>5. Told(r) = {s[i] : i \in DOMAIN s} /\ Told(r)' = {Tail(s)[i] : i \in DOMAIN Tail(s)}
  BY DEF Told, s
<1>6. \A q \in Recordings : q # r => Told(q)' = Told(q)
  BY <1>3 DEF Told
<1>7. Head(s) \in Told(r) /\ Told(r)' \subseteq Told(r)
  BY <1>2, <1>5
<1> QED BY <1>4, <1>6, <1>7 DEF s

\* What each step that touches a recording's audio makes of it; the others' stays.
Others(r) == \A q \in Recordings : q # r => audio'[q] = audio[q]

\* An open stream hands its worker one chunk: nothing else of the audio moves.
LEMMA HandOffAdds ==
  ASSUME TypeOK, NEW r \in Recordings, HandOff(r)
  PROVE  /\ Others(r) /\ audio'[r].file = audio[r].file
         /\ audio'[r].queued = audio[r].queued + 1 /\ audio'[r].written = audio[r].written
         /\ audio'[r].accepted = audio[r].accepted + 1
<1>1. audio[r] \in Audio
  BY DEF TypeOK
<1>2. audio' = [audio EXCEPT ![r] = [audio[r] EXCEPT !.queued = @ + 1, !.accepted = @ + 1]]
  BY DEF HandOff, TypeOK
<1> QED BY <1>2 DEF TypeOK, Others

\* A chunk that is written leaves the queue for the file.
LEMMA WriteMoves ==
  ASSUME TypeOK, NEW r \in Recordings, Write(r)
  PROVE  /\ Others(r) /\ audio'[r].file = audio[r].file
         /\ audio'[r].queued = audio[r].queued - 1 /\ audio'[r].written = audio[r].written + 1
         /\ audio'[r].accepted = audio[r].accepted
<1>1. audio[r] \in Audio
  BY DEF TypeOK
<1>2. audio' = [audio EXCEPT ![r] = [audio[r] EXCEPT !.queued = @ - 1, !.written = @ + 1]]
  BY DEF Write, TypeOK
<1> QED BY <1>2 DEF TypeOK, Others

\* A step that changes the file changes nothing else of the audio.
LEMMA FileOnly ==
  ASSUME audio \in [Recordings -> Audio], NEW r \in Recordings, NEW file,
         audio' = [audio EXCEPT ![r].file = file]
  PROVE  /\ Others(r) /\ audio'[r].file = file
         /\ audio'[r].queued = audio[r].queued /\ audio'[r].written = audio[r].written
         /\ audio'[r].accepted = audio[r].accepted
<1>1. audio[r] \in Audio
  OBVIOUS
<1>2. audio' = [audio EXCEPT ![r] = [audio[r] EXCEPT !.file = file]]
  OBVIOUS
<1> QED BY DEF Others

\* A queue that is dropped changes nothing of the file.
LEMMA QueueEmptied ==
  ASSUME audio \in [Recordings -> Audio], NEW r \in Recordings,
         audio' = [audio EXCEPT ![r].queued = 0]
  PROVE  /\ Others(r) /\ audio'[r].queued = 0 /\ audio'[r].file = audio[r].file
<1>1. audio[r] \in Audio
  OBVIOUS
<1>2. audio' = [audio EXCEPT ![r] = [audio[r] EXCEPT !.queued = 0]]
  OBVIOUS
<1> QED BY DEF Others

\* A worker that obeys a stop or an ending writes what is queued unless there is trouble;
\* it finishes the file, keeps it as it is, or throws it away when it is cancelled.
LEMMA ObeyDrains ==
  ASSUME TypeOK, NEW r \in Recordings, Obey(r)
  PROVE  LET command == Head(commands[r])
         IN  /\ Others(r) /\ audio'[r].queued = 0 /\ audio'[r].accepted = audio[r].accepted
             /\ command \in {"stop", "cancel", "end"}
             /\ audio'[r].file = CASE command = "stop" -> "finished"
                                   [] command = "cancel" -> "gone"
                                   [] command = "end" -> audio[r].file
             /\ r \notin troubled' /\ command # "cancel" =>
                    audio'[r].written = audio[r].written + audio[r].queued
<1> DEFINE command == Head(commands[r])
           dropped == [audio[r] EXCEPT !.queued = 0]
<1>1. audio[r] \in Audio /\ command \in {"stop", "cancel", "end"}
  BY DEF TypeOK, Obey
<1>2. /\ Closed(r).queued = 0 /\ Closed(r).accepted = audio[r].accepted
      /\ Closed(r).written = audio[r].written + audio[r].queued /\ Closed(r).file = audio[r].file
      /\ [Closed(r) EXCEPT !.file = "finished"].queued = 0
      /\ [Closed(r) EXCEPT !.file = "finished"].accepted = audio[r].accepted
      /\ [Closed(r) EXCEPT !.file = "finished"].written = audio[r].written + audio[r].queued
      /\ [Closed(r) EXCEPT !.file = "finished"].file = "finished"
  BY DEF Closed
<1>3. /\ dropped.queued = 0 /\ dropped.accepted = audio[r].accepted
      /\ dropped.file = audio[r].file
      /\ [dropped EXCEPT !.file = "finished"].queued = 0
      /\ [dropped EXCEPT !.file = "finished"].accepted = audio[r].accepted
      /\ [dropped EXCEPT !.file = "finished"].file = "finished"
  BY <1>1 DEF Audio
<1>4. /\ [audio[r] EXCEPT !.queued = 0, !.file = "gone"].queued = 0
      /\ [audio[r] EXCEPT !.queued = 0, !.file = "gone"].accepted = audio[r].accepted
      /\ [audio[r] EXCEPT !.queued = 0, !.file = "gone"].file = "gone"
  BY <1>1 DEF Audio
<1>5. PICK drained \in BOOLEAN :
        LET closed == IF drained THEN Closed(r) ELSE dropped
        IN  /\ troubled' = IF drained THEN troubled ELSE troubled \cup {r}
            /\ audio' = [audio EXCEPT ![r] =
                 CASE command = "stop" -> [closed EXCEPT !.file = "finished"]
                   [] command = "cancel" -> [audio[r] EXCEPT !.queued = 0, !.file = "gone"]
                   [] command = "end" -> closed]
  BY DEF Obey, TypeOK
<1>6. Others(r)
  BY <1>5 DEF Others
<1> HIDE DEF dropped, command
<1>7. CASE drained
  <2>1. audio'[r] = CASE command = "stop" -> [Closed(r) EXCEPT !.file = "finished"]
                      [] command = "cancel" -> [audio[r] EXCEPT !.queued = 0, !.file = "gone"]
                      [] command = "end" -> Closed(r)
    BY <1>5, <1>7 DEF TypeOK
  <2> QED BY <1>1, <1>2, <1>6, <2>1 DEF command
<1>8. CASE ~drained
  <2>1. audio'[r] = CASE command = "stop" -> [dropped EXCEPT !.file = "finished"]
                      [] command = "cancel" -> [audio[r] EXCEPT !.queued = 0, !.file = "gone"]
                      [] command = "end" -> dropped
    BY <1>5, <1>8 DEF TypeOK
  <2>2. r \in troubled'
    BY <1>5, <1>8
  <2> QED BY <1>1, <1>3, <1>6, <2>1, <2>2 DEF command
<1> QED BY <1>7, <1>8

\* Every step keeps the variables in their types.
LEMMA TypeStep == ASSUME TypeOK, Next PROVE TypeOK'
<1> USE DEF TypeOK, host, capture, shell, page
<1>a. Quiet \in Call /\ Fresh \in Knowledge
  BY CallFields, KnowledgeFields
<1>1. ASSUME NEW w \in Windows, CallStart(w) PROVE TypeOK'
  BY <1>1, CallFields DEF CallStart
<1>2. ASSUME NEW r \in Recordings, StartBusy(r) PROVE TypeOK'
  BY <1>2, <1>a DEF StartBusy, Answered
<1>3. ASSUME NEW r \in Recordings, StartFails(r) PROVE TypeOK'
  BY <1>3, <1>a DEF StartFails, Answered
<1>4. ASSUME NEW r \in Recordings, StartOpens(r) PROVE TypeOK'
  <2>1. call' \in [Recordings -> Call]
    BY <1>4, CallFields, Goes DEF StartOpens, Asking
  <2>2. audio' \in [Recordings -> Audio]
    BY <1>4, AudioFields DEF StartOpens
  <2>3. call' \in [Recordings -> Call] /\ audio' \in [Recordings -> Audio] /\ lock' = r
        /\ worker' \in [Recordings -> {"none", "opening", "capturing", "waiting", "done"}]
    BY <1>4, <2>1, <2>2 DEF StartOpens
  <2> QED BY <1>4, <2>3 DEF StartOpens
<1>5. ASSUME NEW r \in Recordings, StartReturns(r) PROVE TypeOK'
  <2>1. call[r].by \in Windows
    BY <1>5, CallFields DEF StartReturns
  <2>2. call' \in [Recordings -> Call]
    BY <1>5, <1>a DEF StartReturns, Answered
  <2>3. slot' = None \/ slot' \in Slot
    BY <1>5, <2>1, SlotFields DEF StartReturns
  <2>4. js' \in [Windows -> Knowledge]
    BY <1>5, KnowledgeFields DEF StartReturns
  <2>5. posted' \in BOOLEAN
    BY <1>5 DEF StartReturns
  <2> QED BY <1>5, <2>2, <2>3, <2>4 DEF StartReturns
<1>6. ASSUME NEW r \in Recordings, NEW kind \in {"stop", "cancel"}, EndRefused(r, kind)
      PROVE  TypeOK'
  BY <1>6, <1>a DEF EndRefused, Answered
<1>7. ASSUME NEW r \in Recordings, NEW kind \in {"stop", "cancel"}, EndTakes(r, kind) PROVE TypeOK'
  <2>1. call' \in [Recordings -> Call]
    BY <1>7, CallFields, Goes DEF EndTakes, Asking
  <2>2. commands' \in [Recordings -> Seq({"stop", "cancel", "end"})]
    BY <1>7, Sent DEF EndTakes
  <2> QED BY <1>7, <2>1, <2>2 DEF EndTakes
<1>8. ASSUME NEW r \in Recordings, EndReturns(r) PROVE TypeOK'
  <2>1. call[r] \in Call /\ call[r] # Quiet
    BY <1>8, CallFields DEF EndReturns
  <2>2. [call[r] EXCEPT !.at = "publishing"] \in Call
    BY <2>1, CallMoves
  <2>3. call' \in [Recordings -> Call]
    BY <1>8, <1>a, <2>2 DEF EndReturns
  <2> QED BY <1>8, <2>3 DEF EndReturns
<1>9. ASSUME NEW r \in Recordings, Publish(r) PROVE TypeOK'
  <2>1. call' \in [Recordings -> Call]
    BY <1>9, <1>a DEF Publish, Answered
  <2>2. audio' \in [Recordings -> Audio]
    <3>1. \A file \in {"published", "gone"} : [audio[r] EXCEPT !.file = file] \in Audio
      BY AudioFields
    <3>2. PICK file \in {"published", "gone"} :
              audio' = [audio EXCEPT ![r] = [audio[r] EXCEPT !.file = file]]
      BY <1>9 DEF Publish
    <3> QED BY <3>1, <3>2
  <2> QED BY <1>9, <2>1, <2>2 DEF Publish
<1>10. ASSUME NEW r \in Recordings, WorkerOpens(r) PROVE TypeOK'
  BY <1>10 DEF WorkerOpens
<1>11. ASSUME NEW r \in Recordings, WorkerCannotOpen(r) PROVE TypeOK'
  BY <1>11, AudioFields DEF WorkerCannotOpen
<1>12. ASSUME NEW r \in Recordings, Write(r) PROVE TypeOK'
  <2>1. [audio[r] EXCEPT !.queued = @ - 1, !.written = @ + 1] \in Audio
    <3>1. audio[r].queued \in Nat /\ audio[r].written \in Nat
      BY AudioFields
    <3>2. audio[r].queued > 0
      BY <1>12 DEF Write
    <3>3. audio[r].queued - 1 \in Nat /\ audio[r].written + 1 \in Nat
      BY <3>1, <3>2
    <3> QED BY <3>3, AudioFields
  <2>2. audio' = [audio EXCEPT ![r] = [audio[r] EXCEPT !.queued = @ - 1, !.written = @ + 1]]
    BY <1>12 DEF Write
  <2> QED BY <1>12, <2>1 DEF Write
<1>13. ASSUME NEW r \in Recordings, WriteFails(r) PROVE TypeOK'
  BY <1>13, AudioFields DEF WriteFails
<1>14. ASSUME NEW r \in Recordings, Obey(r) PROVE TypeOK'
  <2>1. Head(commands[r]) \in {"stop", "cancel", "end"}
        /\ commands' \in [Recordings -> Seq({"stop", "cancel", "end"})]
    BY <1>14 DEF Obey
  <2>2. audio' \in [Recordings -> Audio]
    <3>1. /\ Closed(r) \in Audio /\ [Closed(r) EXCEPT !.file = "finished"] \in Audio
          /\ [audio[r] EXCEPT !.queued = 0] \in Audio
          /\ [[audio[r] EXCEPT !.queued = 0] EXCEPT !.file = "finished"] \in Audio
          /\ [audio[r] EXCEPT !.queued = 0, !.file = "gone"] \in Audio
      BY Drained, AudioFields DEF Closed
    <3>2. PICK a \in {Closed(r), [audio[r] EXCEPT !.queued = 0],
                   [Closed(r) EXCEPT !.file = "finished"],
                   [[audio[r] EXCEPT !.queued = 0] EXCEPT !.file = "finished"],
                   [audio[r] EXCEPT !.queued = 0, !.file = "gone"]} :
             audio' = [audio EXCEPT ![r] = a]
      BY <1>14, <2>1 DEF Obey
    <3>3. a \in Audio
      BY <3>1, <3>2
    <3> QED BY <3>2, <3>3
  <2>3. /\ worker' \in [Recordings -> {"none", "opening", "capturing", "waiting", "done"}]
        /\ stream' \in [Recordings -> {"closed", "open", "dead"}] /\ troubled' \subseteq Recordings
    BY <1>14 DEF Obey
  <2> QED BY <1>14, <2>1, <2>2 DEF Obey
<1>15. ASSUME NEW r \in Recordings, AwaitResolution(r) PROVE TypeOK'
  <2>1. Head(commands[r]) \in {"stop", "cancel", "end"}
        /\ commands' \in [Recordings -> Seq({"stop", "cancel", "end"})]
    BY <1>15 DEF AwaitResolution
  <2>2. audio[r].file \in {"none", "staged", "finished", "published", "gone"}
    BY AudioFields
  <2>3. PICK file \in {"none", "staged", "finished", "published", "gone"} :
            audio' = [audio EXCEPT ![r] = [audio[r] EXCEPT !.file = file]]
    BY <1>15, <2>1, <2>2 DEF AwaitResolution
  <2>4. [audio[r] EXCEPT !.file = file] \in Audio
    BY AudioFields
  <2>5. audio' \in [Recordings -> Audio]
    BY <2>3, <2>4
  <2> QED BY <1>15, <2>1, <2>5 DEF AwaitResolution
<1>16. ASSUME NEW r \in Recordings, HandOff(r) PROVE TypeOK'
  <2>1. [audio[r] EXCEPT !.queued = @ + 1, !.accepted = @ + 1] \in Audio
    <3>1. audio[r].queued \in Nat /\ audio[r].accepted \in Nat
      BY AudioFields
    <3>2. audio[r].queued + 1 \in Nat /\ audio[r].accepted + 1 \in Nat
      BY <3>1
    <3> QED BY <3>2, AudioFields
  <2>2. audio' = [audio EXCEPT ![r] = [audio[r] EXCEPT !.queued = @ + 1, !.accepted = @ + 1]]
    BY <1>16 DEF HandOff
  <2> QED BY <1>16, <2>1 DEF HandOff
<1>17. ASSUME NEW r \in Recordings, StreamDies(r) PROVE TypeOK'
  BY <1>17 DEF StreamDies
<1>18. ASSUME NEW r \in Recordings, EndCapture(r) PROVE TypeOK'
  <2>1. CASE Held(r) /\ ~slot.ended
    <3>1. slot \in Slot
      BY <2>1 DEF Held
    <3>2. slot' \in Slot /\ <<slot.owner, r>> \in Windows \X Recordings
      BY <1>18, <2>1, <3>1, SlotFields DEF EndCapture
    <3>3. commands' \in [Recordings -> Seq({"stop", "cancel", "end"})]
      BY <1>18, Sent DEF EndCapture
    <3>4. events' \subseteq Windows \X Recordings
      BY <1>18, <3>2 DEF EndCapture
    <3> QED BY <1>18, <3>2, <3>3, <3>4 DEF EndCapture
  <2>2. CASE ~(Held(r) /\ ~slot.ended)
    BY <1>18, <2>2 DEF EndCapture
  <2> QED BY <2>1, <2>2
<1>19. CASE Refresh
  BY <1>19 DEF Refresh, Capturing
<1>20. CASE CancelOwned
  <2>1. CASE slot # None /\ slot.owner = main
    <3>1. commands' \in [Recordings -> Seq({"stop", "cancel", "end"})]
      BY <1>20, <2>1, SlotFields, Sent DEF CancelOwned
    <3> QED BY <1>20, <3>1 DEF CancelOwned
  <2>2. CASE ~(slot # None /\ slot.owner = main)
    BY <1>20, <2>2 DEF CancelOwned
  <2> QED BY <2>1, <2>2
<1>21. CASE CancelJoined
  BY <1>21 DEF CancelJoined
<1>22. ASSUME NEW w \in Windows, Listen(w) PROVE TypeOK'
  BY <1>22, KnowledgeFields DEF Listen
<1>23. ASSUME NEW w \in Windows, Reconcile(w) PROVE TypeOK'
  BY <1>23, KnowledgeFields DEF Reconcile
<1>24. ASSUME NEW w \in Windows, NEW r \in Recordings, Arrive(w, r) PROVE TypeOK'
  BY <1>24, KnowledgeFields DEF Arrive
<1>25. ASSUME NEW w \in Windows, NEW kind \in {"stop", "cancel"}, CallEnd(w, kind) PROVE TypeOK'
  BY <1>25, CallFields, KnowledgeFields DEF CallEnd
<1>26. ASSUME NEW w \in Windows, Boot(w) PROVE TypeOK'
  BY <1>26, KnowledgeFields, SlotFields DEF Boot
<1>27. ASSUME NEW w \in Windows, Reload(w) PROVE TypeOK'
  <2>1. PageGone(w)
    BY <1>27 DEF Reload
  <2>2. call' \in [Recordings -> Call]
    BY <2>1, Unheard
  <2>3. js' \in [Windows -> Knowledge]
    BY <2>1, <1>a DEF PageGone
  <2> QED BY <1>27, <2>2, <2>3 DEF Reload
<1>28. ASSUME NEW w \in Windows, Destroyed(w) PROVE TypeOK'
  <2>1. PageGone(w)
    BY <1>28 DEF Destroyed
  <2>2. call' \in [Recordings -> Call]
    BY <2>1, Unheard
  <2>3. js' \in [Windows -> Knowledge]
    BY <2>1, <1>a DEF PageGone
  <2> QED BY <1>28, <2>2, <2>3 DEF Destroyed
<1> HIDE DEF TypeOK
<1> QED
  BY <1>1, <1>2, <1>3, <1>4, <1>5, <1>6, <1>7, <1>8, <1>9, <1>10, <1>11, <1>12, <1>13, <1>14, <1>15, <1>16, <1>17, <1>18, <1>19, <1>20, <1>21, <1>22, <1>23, <1>24, <1>25, <1>26, <1>27, <1>28
       DEF Next, Command, Worker, Main, Page, Claim

------------------------------------------------------------------------
(* What the steps do, one recording at a time. *)

\* The steps of one recording leave what they leave of the others.
CallsStay(r) == \A q \in Recordings : q # r => call'[q] = call[q]
WorkersStay(r) == \A q \in Recordings : q # r => worker'[q] = worker[q]
CommandsStay(r) == \A q \in Recordings : q # r => Told(q)' = Told(q)
StreamsStay(r) == \A q \in Recordings : q # r => stream'[q] = stream[q]

\* What the types say of one recording.
TypedAt(r) ==
    /\ worker[r] \in {"none", "opening", "capturing", "waiting", "done"}
    /\ call[r].at \in {"idle", "asking", "opening", "joining", "publishing"}
    /\ call[r].at # "idle" => call[r] # Quiet /\ call[r].by \in Windows
                              /\ call[r].kind \in {"start", "stop", "cancel"}
    /\ Quiet.at = "idle" /\ Quiet.kind = "none"
    /\ audio[r].queued \in Nat /\ audio[r].accepted \in Nat /\ audio[r].written \in Nat
    /\ commands[r] \in Seq({"stop", "cancel", "end"})
    /\ minted \in 0 .. MaxRecordings /\ lock \in Recordings \cup {None, MainThread}
    /\ slot # None => slot.id \in Recordings /\ slot.owner \in Windows

\* The types hold of each recording.
LEMMA Typed == ASSUME TypeOK, NEW r \in Recordings PROVE TypedAt(r)
<1>1. call[r] \in Call /\ audio[r] \in Audio
  BY DEF TypeOK
<1>2. /\ call[r].at \in {"idle", "asking", "opening", "joining", "publishing"}
      /\ call[r].at # "idle" => call[r] # Quiet /\ call[r].by \in Windows
                                /\ call[r].kind \in {"start", "stop", "cancel"}
      /\ Quiet.at = "idle" /\ Quiet.kind = "none"
  BY <1>1, CallFields
<1>3. audio[r].queued \in Nat /\ audio[r].accepted \in Nat /\ audio[r].written \in Nat
  BY <1>1, AudioFields
<1>4. slot # None => slot.id \in Recordings /\ slot.owner \in Windows
  BY SlotFields DEF TypeOK
<1> QED BY <1>2, <1>3, <1>4 DEF TypeOK, TypedAt

\* What CallStart does.
LEMMA CallStartDoes ==
  ASSUME TypeOK, NEW w \in Windows, CallStart(w)
  PROVE  \E r \in Recordings :
           /\ r = minted + 1 /\ minted' = r /\ CallsStay(r)
           /\ call'[r].at = "asking" /\ call'[r] # Quiet
<1>1. /\ minted + 1 \in Recordings /\ minted' = minted + 1 /\ CallsStay(minted + 1)
      /\ call'[minted + 1].at = "asking" /\ call'[minted + 1] # Quiet
  BY CallFields DEF CallStart, TypeOK, CallsStay
<1> QED BY <1>1

\* A command that is answered leaves its recording to the next.
LEMMA CommandAnswers ==
  ASSUME TypeOK, NEW r \in Recordings, Answered(r)
  PROVE  CallsStay(r) /\ call'[r] = Quiet /\ call'[r].at = "idle" /\ call'[r].kind = "none"
  BY CallFields DEF TypeOK, Answered, CallsStay

\* What StartOpens does.
LEMMA StartOpensDoes ==
  ASSUME TypeOK, NEW r \in Recordings, StartOpens(r)
  PROVE  /\ call[r].at = "asking" /\ call[r].kind = "start" /\ slot = None /\ lock = None
         /\ CallsStay(r) /\ call'[r].at = "opening" /\ call'[r].kind = "start"
         /\ call'[r] # Quiet
         /\ WorkersStay(r) /\ worker'[r] = "opening" /\ lock' = r
         /\ Others(r) /\ audio'[r].file = "staged" /\ audio'[r].queued = audio[r].queued
         /\ audio'[r].written = audio[r].written /\ audio'[r].accepted = audio[r].accepted
<1>1. CallsStay(r) /\ call'[r].at = "opening" /\ call'[r].kind = call[r].kind /\ call'[r] # Quiet
  BY Typed, Goes DEF TypedAt, StartOpens, Asking, CallsStay, TypeOK
<1>2. /\ Others(r) /\ audio'[r].file = "staged" /\ audio'[r].queued = audio[r].queued
      /\ audio'[r].written = audio[r].written /\ audio'[r].accepted = audio[r].accepted
  BY FileOnly DEF StartOpens, TypeOK
<1> QED BY <1>1, <1>2 DEF StartOpens, Asking, WorkersStay, TypeOK

\* What EndTakes does.
LEMMA EndTakesDoes ==
  ASSUME TypeOK, NEW r \in Recordings, NEW kind \in {"stop", "cancel"}, EndTakes(r, kind)
  PROVE  /\ CallsStay(r) /\ call'[r].at = "joining" /\ call'[r].kind = kind /\ call'[r] # Quiet
         /\ call[r].at = "asking" /\ call[r].kind = kind /\ lock = None /\ lock' = r
         /\ slot # None /\ slot.id = r /\ slot' = None
         /\ CommandsStay(r) /\ Told(r)' = Told(r) \cup {kind}
<1>1. CallsStay(r) /\ call'[r].at = "joining" /\ call'[r].kind = call[r].kind /\ call'[r] # Quiet
  BY Typed, Goes DEF TypedAt, EndTakes, Asking, CallsStay, TypeOK
<1>2. CommandsStay(r) /\ Told(r)' = Told(r) \cup {kind}
  BY Sent DEF EndTakes, CommandsStay, TypeOK
<1> QED BY <1>1, <1>2 DEF EndTakes, Asking, Owned, Held

\* What EndReturns does.
LEMMA EndReturnsDoes ==
  ASSUME TypeOK, NEW r \in Recordings, EndReturns(r)
  PROVE  /\ CallsStay(r) /\ call[r].at = "joining" /\ worker[r] = "done" /\ lock' = None
         /\ \/ call[r].kind = "stop" /\ call'[r].at = "publishing" /\ call'[r].kind = "stop"
               /\ call'[r] # Quiet
            \/ call'[r] = Quiet
<1>1. CASE call[r].kind = "stop"
  <2>1. call' = [call EXCEPT ![r].at = "publishing"] /\ call[r] # Quiet
    BY <1>1, Typed DEF TypedAt, EndReturns
  <2>2. /\ CallsStay(r) /\ call'[r].at = "publishing"
        /\ call'[r].kind = call[r].kind /\ call'[r] # Quiet
    BY <2>1, Goes DEF CallsStay, TypeOK
  <2> QED BY <2>2 DEF EndReturns
<1>2. CASE call[r].kind # "stop"
  BY DEF EndReturns, TypeOK, CallsStay
<1> QED BY <1>1, <1>2

\* What Publish does.
LEMMA PublishDoes ==
  ASSUME TypeOK, NEW r \in Recordings, Publish(r)
  PROVE  /\ call[r].at = "publishing" /\ Others(r) /\ audio'[r].file \in {"published", "gone"}
         /\ audio'[r].queued = audio[r].queued
         /\ audio'[r].written = audio[r].written /\ audio'[r].accepted = audio[r].accepted
<1>1. PICK file \in {"published", "gone"} : audio' = [audio EXCEPT ![r].file = file]
  BY DEF Publish
<1> QED BY FileOnly DEF Publish, TypeOK

\* What WorkerOpens does.
LEMMA WorkerOpensDoes ==
  ASSUME TypeOK, NEW r \in Recordings, WorkerOpens(r)
  PROVE  /\ WorkersStay(r) /\ worker[r] = "opening" /\ worker'[r] = "capturing"
         /\ StreamsStay(r) /\ stream'[r] = "open"
  BY DEF WorkerOpens, TypeOK, WorkersStay, StreamsStay

\* What WorkerCannotOpen does.
LEMMA WorkerCannotOpenDoes ==
  ASSUME TypeOK, NEW r \in Recordings, WorkerCannotOpen(r)
  PROVE  /\ WorkersStay(r) /\ worker[r] = "opening" /\ worker'[r] = "done"
         /\ Others(r) /\ audio'[r].file = "gone" /\ audio'[r].queued = audio[r].queued
<1>1. /\ Others(r) /\ audio'[r].file = "gone" /\ audio'[r].queued = audio[r].queued
  BY FileOnly DEF WorkerCannotOpen, TypeOK
<1> QED BY <1>1 DEF WorkerCannotOpen, TypeOK, WorkersStay

\* What WriteFails does.
LEMMA WriteFailsDoes ==
  ASSUME TypeOK, NEW r \in Recordings, WriteFails(r)
  PROVE  /\ WorkersStay(r) /\ worker[r] = "capturing" /\ worker'[r] = "waiting"
         /\ StreamsStay(r) /\ stream'[r] = "closed" /\ troubled' = troubled \cup {r}
         /\ enders' = enders \cup {r}
         /\ Others(r) /\ audio'[r].file = audio[r].file /\ audio'[r].queued = 0
<1>1. Others(r) /\ audio'[r].file = audio[r].file /\ audio'[r].queued = 0
  BY QueueEmptied DEF WriteFails, TypeOK
<1> QED BY <1>1 DEF WriteFails, TypeOK, WorkersStay, StreamsStay

\* A worker told to end waits; told to stop or cancel, it is done.
LEMMA ObeyDoes ==
  ASSUME TypeOK, NEW r \in Recordings, Obey(r)
  PROVE  /\ WorkersStay(r) /\ worker[r] = "capturing"
         /\ worker'[r] = IF Head(commands[r]) = "end" THEN "waiting" ELSE "done"
         /\ StreamsStay(r) /\ stream'[r] = "closed"
         /\ troubled \subseteq troubled' /\ troubled' \subseteq troubled \cup {r}
         /\ CommandsStay(r) /\ Head(commands[r]) \in Told(r) /\ Told(r)' \subseteq Told(r)
         /\ UNCHANGED <<host, enders, shell, page, minted>>
<1>1. /\ WorkersStay(r) /\ worker[r] = "capturing"
      /\ worker'[r] = IF Head(commands[r]) = "end" THEN "waiting" ELSE "done"
  BY DEF Obey, TypeOK, WorkersStay
<1>2. troubled \subseteq troubled' /\ troubled' \subseteq troubled \cup {r}
  BY DEF Obey
<1>3. CommandsStay(r) /\ Head(commands[r]) \in Told(r) /\ Told(r)' \subseteq Told(r)
  BY Taken DEF Obey, TypeOK, CommandsStay
<1> QED BY <1>1, <1>3 DEF Obey, TypeOK, StreamsStay

\* What AwaitResolution does.
LEMMA AwaitResolutionDoes ==
  ASSUME TypeOK, NEW r \in Recordings, AwaitResolution(r)
  PROVE  /\ WorkersStay(r) /\ worker[r] = "waiting"
         /\ worker'[r] = IF Head(commands[r]) = "end" THEN "waiting" ELSE "done"
         /\ CommandsStay(r) /\ Head(commands[r]) \in Told(r) /\ Told(r)' \subseteq Told(r)
         /\ Head(commands[r]) \in {"stop", "cancel", "end"}
         /\ Others(r) /\ audio'[r].queued = audio[r].queued
         /\ audio'[r].written = audio[r].written /\ audio'[r].accepted = audio[r].accepted
         /\ audio'[r].file = CASE Head(commands[r]) = "stop" -> "finished"
                               [] Head(commands[r]) = "cancel" -> "gone"
                               [] Head(commands[r]) = "end" -> audio[r].file
<1>1. Head(commands[r]) \in {"stop", "cancel", "end"}
  BY DEF AwaitResolution, TypeOK
<1>2. /\ Others(r) /\ audio'[r].queued = audio[r].queued
      /\ audio'[r].written = audio[r].written /\ audio'[r].accepted = audio[r].accepted
      /\ audio'[r].file = CASE Head(commands[r]) = "stop" -> "finished"
                            [] Head(commands[r]) = "cancel" -> "gone"
                            [] Head(commands[r]) = "end" -> audio[r].file
  BY FileOnly DEF AwaitResolution, TypeOK
<1>3. /\ WorkersStay(r) /\ worker[r] = "waiting"
      /\ worker'[r] = IF Head(commands[r]) = "end" THEN "waiting" ELSE "done"
  BY DEF AwaitResolution, TypeOK, WorkersStay
<1>4. CommandsStay(r) /\ Head(commands[r]) \in Told(r) /\ Told(r)' \subseteq Told(r)
  BY Taken DEF AwaitResolution, TypeOK, CommandsStay
<1> QED BY <1>1, <1>2, <1>3, <1>4

\* The slot is marked, or nothing is.
LEMMA EndCaptureDoes ==
  ASSUME TypeOK, NEW r \in Recordings, EndCapture(r)
  PROVE  /\ r \in enders /\ enders' = enders \ {r} /\ lock = None /\ CommandsStay(r)
         /\ \/ /\ slot # None /\ slot.id = r /\ slot' # None /\ slot'.id = r
               /\ Told(r)' = Told(r) \cup {"end"} /\ posted' = TRUE
            \/ /\ slot' = slot /\ posted' = posted
               /\ \A q \in Recordings : Told(q)' = Told(q)
<1>1. CASE Held(r) /\ ~slot.ended
  <2>1. slot' = [slot EXCEPT !.ended = TRUE] /\ slot \in Slot
    BY <1>1 DEF EndCapture, Held, TypeOK
  <2>2. slot' # None /\ slot'.id = r
    BY <1>1, <2>1, SlotFields DEF Held
  <2>3. CommandsStay(r) /\ Told(r)' = Told(r) \cup {"end"}
    BY <1>1, Sent DEF EndCapture, CommandsStay, TypeOK
  <2> QED BY <1>1, <2>2, <2>3 DEF EndCapture, Held
<1>2. CASE ~(Held(r) /\ ~slot.ended)
  BY <1>2 DEF EndCapture, CommandsStay, Told
<1> QED BY <1>1, <1>2

\* What CancelOwned does.
LEMMA CancelOwnedDoes ==
  ASSUME TypeOK, CancelOwned
  PROVE  /\ main # None /\ lock = None
         /\ \/ /\ slot # None /\ slot' = None /\ lock' = MainThread
               /\ main' = main /\ posted' = posted
               /\ \E r \in Recordings :
                     slot.id = r /\ CommandsStay(r) /\ Told(r)' = Told(r) \cup {"cancel"}
            \/ /\ slot' = slot /\ lock' = lock /\ \A q \in Recordings : Told(q)' = Told(q)
               /\ main' = None /\ posted' = TRUE
<1>1. CASE slot # None /\ slot.owner = main
  <2>1. PICK r \in Recordings : slot.id = r
    BY <1>1, SlotFields DEF TypeOK
  <2>2. Send(r, "cancel")
    BY <1>1, <2>1 DEF CancelOwned
  <2>3. CommandsStay(r) /\ Told(r)' = Told(r) \cup {"cancel"}
    BY <2>2, Sent DEF CommandsStay, TypeOK
  <2> QED BY <1>1, <2>1, <2>3 DEF CancelOwned
<1>2. CASE ~(slot # None /\ slot.owner = main)
  BY <1>2 DEF CancelOwned, Told
<1> QED BY <1>1, <1>2

\* A page that is gone leaves its calls to the host, unheard.
LEMMA PageGoneDoes ==
  ASSUME TypeOK, NEW w \in Windows, PageGone(w)
  PROVE  /\ \A q \in Recordings : /\ call'[q].at = call[q].at /\ call'[q].kind = call[q].kind
                                  /\ call[q] = Quiet => call'[q] = Quiet
         /\ \A v \in Windows : js'[v].holds = js[v].holds \/ js'[v].holds = 0
<1>1. \A q \in Recordings : /\ call'[q].at = call[q].at /\ call'[q].kind = call[q].kind
                            /\ call[q] = Quiet => call'[q] = Quiet
  BY Unheard DEF TypeOK
<1>2. js' = [js EXCEPT ![w] = Fresh] /\ Fresh.holds = 0
  BY DEF PageGone, Fresh
<1> QED BY <1>1, <1>2

\* What StartReturns does.
LEMMA StartReturnsDoes ==
  ASSUME TypeOK, NEW r \in Recordings, StartReturns(r)
  PROVE  /\ call[r].at = "opening" /\ worker[r] # "opening" /\ lock' = None
         /\ CallsStay(r) /\ call'[r] = Quiet
         /\ \/ worker[r] = "done" /\ slot' = slot /\ js' = js /\ posted' = posted
            \/ /\ worker[r] # "done" /\ slot' # None /\ slot'.id = r /\ ~slot'.ended
               /\ posted' = TRUE
               /\ \A v \in Windows : js'[v].holds = js[v].holds \/ js'[v].holds = r
<1>1. CallsStay(r) /\ call'[r] = Quiet /\ call[r].by \in Windows
  BY CommandAnswers, Typed DEF TypedAt, StartReturns
<1>2. CASE worker[r] = "done"
  BY <1>1, <1>2 DEF StartReturns, TypeOK
<1>3. CASE worker[r] # "done"
  <2>1. slot' = [id |-> r, owner |-> call[r].by, ended |-> FALSE] /\ posted' = TRUE
    BY <1>3 DEF StartReturns
  <2>2. js' = js \/ js' = [js EXCEPT ![call[r].by] = Holding(r, FALSE)]
    BY DEF StartReturns
  <2>3. Holding(r, FALSE).holds = r
    BY KnowledgeFields
  <2>4. \A v \in Windows : js'[v].holds = js[v].holds \/ js'[v].holds = r
    BY <2>2, <2>3 DEF TypeOK
  <2>5. slot' # None /\ slot'.id = r /\ ~slot'.ended
    BY <1>1, <2>1, SlotFields
  <2>6. call[r].at = "opening" /\ worker[r] # "opening" /\ lock' = None
    BY DEF StartReturns
  <2> QED BY <1>1, <1>3, <2>1, <2>4, <2>5, <2>6
<1> QED BY <1>2, <1>3

\* Only a worker that captures writes.
LEMMA WriteFrom ==
  ASSUME TypeOK, NEW r \in Recordings, Write(r)
  PROVE  worker[r] = "capturing" /\ audio[r].queued > 0
  BY DEF Write

\* What StreamDies does.
LEMMA StreamDiesDoes ==
  ASSUME TypeOK, NEW r \in Recordings, StreamDies(r)
  PROVE  /\ stream[r] = "open" /\ StreamsStay(r) /\ stream'[r] = "dead"
         /\ enders' = enders \cup {r} /\ troubled' = troubled \cup {r}
  BY DEF StreamDies, TypeOK, StreamsStay

\* What CallEnd does.
LEMMA CallEndDoes ==
  ASSUME TypeOK, NEW w \in Windows, NEW kind \in {"stop", "cancel"}, CallEnd(w, kind)
  PROVE  \E r \in Recordings :
           /\ r = js[w].holds /\ CallsStay(r) /\ call[r].at = "idle" /\ call[r] = Quiet
           /\ call'[r].at = "asking" /\ call'[r].kind = kind /\ call'[r] # Quiet
           /\ \A v \in Windows : js'[v].holds = js[v].holds \/ js'[v].holds = 0
<1>1. js[w] \in Knowledge /\ js[w].holds # 0 /\ call[js[w].holds] = Quiet
  BY DEF CallEnd, TypeOK
<1>2. js[w].holds \in Recordings
  BY <1>1, KnowledgeFields
<1>3. /\ call' = [call EXCEPT ![js[w].holds] = Calling(kind, w)]
      /\ js' = [js EXCEPT ![w] = Holding(0, FALSE)]
  BY DEF CallEnd
<1>4. Holding(0, FALSE).holds = 0
  BY KnowledgeFields
<1>5. \A v \in Windows : js'[v].holds = js[v].holds \/ js'[v].holds = 0
  BY <1>3, <1>4 DEF TypeOK
<1>6. CallsStay(js[w].holds) /\ call'[js[w].holds] = Calling(kind, w)
  BY <1>2, <1>3 DEF TypeOK, CallsStay
<1>7. Calling(kind, w).at = "asking" /\ Calling(kind, w).kind = kind /\ Quiet.at = "idle"
  BY CallFields
<1>8. call'[js[w].holds].at = "asking" /\ call'[js[w].holds] # Quiet
      /\ call'[js[w].holds].kind = kind /\ call[js[w].holds].at = "idle"
  BY <1>1, <1>6, <1>7
<1> QED BY <1>1, <1>2, <1>5, <1>6, <1>8

\* What Boot does.
LEMMA BootDoes ==
  ASSUME TypeOK, NEW w \in Windows, Boot(w)
  PROVE  \A v \in Windows : \/ js'[v].holds = js[v].holds \/ js'[v].holds = 0
                            \/ slot # None /\ js'[v].holds = slot.id
<1>1. PICK r \in Recordings \cup {0}, told \in BOOLEAN :
        js' = [js EXCEPT ![w] = Holding(r, told)] /\ (r = 0 \/ (slot # None /\ r = slot.id))
  BY SlotFields DEF Boot, TypeOK
<1>2. Holding(r, told).holds = r
  BY KnowledgeFields
<1> QED BY <1>1, <1>2

\* What a page hears of its recording changes nothing of which it holds.
LEMMA HearingDoes ==
  ASSUME TypeOK, NEW w \in Windows, Listen(w) \/ Reconcile(w) \/ \E r \in Recordings : Arrive(w, r)
  PROVE  \A v \in Windows : js'[v].holds = js[v].holds
<1>1. js[w] \in Knowledge
  BY DEF TypeOK
<1>2. CASE Listen(w)
  BY <1>2 DEF Listen, TypeOK
<1>3. CASE Reconcile(w)
  BY <1>3 DEF Reconcile, TypeOK
<1>4. CASE \E r \in Recordings : Arrive(w, r)
  BY <1>4 DEF Arrive
<1> QED BY <1>2, <1>3, <1>4

------------------------------------------------------------------------
(* Every step keeps the invariant: the recording it is about is looked at alone, the
   others are as they were. *)

\* The invariant but the types.
Sound ==
    /\ RecordingsAreSound /\ LockIsAccounted /\ OneWorker /\ WorkersAreOwned /\ SlotIsSound
    /\ SlotIsClaimable /\ EndedTruly /\ TroubleIsKnown /\ PagesNameTheMinted /\ TrayIsSound

\* A recording the step does not touch.
SameAt(q) ==
    /\ call'[q].at = call[q].at /\ call'[q].kind = call[q].kind
    /\ call[q] = Quiet => call'[q] = Quiet
    /\ worker'[q] = worker[q] /\ Told(q)' = Told(q) /\ audio'[q] = audio[q]
    /\ stream'[q] = stream[q] /\ troubled \subseteq troubled' /\ minted \in Int /\ minted' \in Int
    /\ minted <= minted'

\* The recordings minted are counted.
LEMMA MintedIs == ASSUME TypeOK PROVE minted \in Nat
  BY DEF TypeOK

\* Who is sent nothing has been told what it was.
LEMMA ToldStays == ASSUME commands' = commands PROVE \A q \in Recordings : Told(q)' = Told(q)
  BY DEF Told

\* A recording the step does not touch is as sound as it was.
LEMMA Same ==
  ASSUME NEW q \in Recordings, SameAt(q), StartHasNoWorker(q), OpeningIsSound(q), StopIsSound(q),
         KeepsChunks(q)
  PROVE  StartHasNoWorker(q)' /\ OpeningIsSound(q)' /\ StopIsSound(q)' /\ KeepsChunks(q)'
<1>1. StartHasNoWorker(q)'
  BY DEF SameAt, StartHasNoWorker
<1>2. OpeningIsSound(q)'
  BY DEF SameAt, OpeningIsSound
<1>3. StopIsSound(q)'
  BY DEF SameAt, StopIsSound
<1>4. KeepsChunks(q)'
  BY DEF SameAt, KeepsChunks
<1> QED BY <1>1, <1>2, <1>3, <1>4

\* CallStart keeps the invariant.
LEMMA CallStartKeeps ==
  ASSUME HostIInv, NEW w \in Windows, CallStart(w)
  PROVE  Sound'
<1>1. TypeOK /\ Sound /\ minted \in Nat
  BY MintedIs DEF HostIInv, Sound
<1>2. PICK r \in Recordings :
      /\ r = minted + 1 /\ minted' = r /\ CallsStay(r)
      /\ call'[r].at = "asking" /\ call'[r] # Quiet
      /\ \A q \in Recordings : Told(q)' = Told(q)
      /\ UNCHANGED <<slot, lock, worker, commands, stream, audio, enders, troubled, tray, posted,
                     main, js>>
  BY <1>1, CallStartDoes, ToldStays DEF CallStart, host, capture, shell, page
<1>3. TypedAt(r) /\ StartHasNoWorker(r) /\ OpeningIsSound(r) /\ StopIsSound(r) /\ KeepsChunks(r)
      /\ WorkerIsOwned(r)
  BY <1>1, Typed DEF Sound, RecordingsAreSound, WorkersAreOwned
<1>4. \A q \in Recordings : q # r => SameAt(q)
  BY <1>2, <1>3 DEF SameAt, TypedAt, CallsStay
<1>5. StartHasNoWorker(r)'
  BY <1>1, <1>2, <1>3 DEF StartHasNoWorker, KeepsChunks
<1>6. OpeningIsSound(r)'
  BY <1>2, <1>3 DEF OpeningIsSound, KeepsChunks
<1>7. StopIsSound(r)'
  BY <1>2 DEF StopIsSound, KeepsChunks
<1>8. KeepsChunks(r)'
  BY <1>2, <1>3 DEF KeepsChunks
<1>9. RecordingsAreSound'
  BY <1>1, <1>4, <1>5, <1>6, <1>7, <1>8, Same DEF Sound, RecordingsAreSound
<1>10. LockIsAccounted'
  BY <1>1, <1>2, <1>3 DEF Sound, LockIsAccounted, CallsStay, OpeningIsSound, StopIsSound,
       StartHasNoWorker
<1>11. WorkersAreOwned'
  BY <1>1, <1>2, <1>3 DEF Sound, WorkersAreOwned, WorkerIsOwned, Live, Held, LockIsAccounted,
       OneWorker, CallsStay, OpeningIsSound, StopIsSound, StartHasNoWorker, KeepsChunks
<1>12. SlotIsSound'
  BY <1>1, <1>2, <1>3 DEF Sound, TypedAt, SlotIsSound, OpeningIsSound
<1>13. PagesNameTheMinted'
  <2>1. \A v \in Windows : js'[v] = js[v] /\ js[v].holds \in Nat /\ js[v].holds <= minted
    BY <1>1, <1>2 DEF Sound, PagesNameTheMinted, TypeOK, Knowledge
  <2> QED BY <1>1, <1>2, <2>1 DEF PagesNameTheMinted
<1>14. TrayIsSound'
  BY <1>1, <1>2 DEF Sound, TrayIsSound, Capturing, CallsStay
<1>15. (OneWorker /\ SlotIsClaimable /\ EndedTruly /\ TroubleIsKnown)'
  BY <1>1, <1>2 DEF Sound, OneWorker, Live, WorkerIsOwned, Held, SlotIsClaimable, EndedTruly,
       TroubleIsKnown
<1> QED BY <1>9, <1>10, <1>11, <1>12, <1>13, <1>14, <1>15 DEF Sound

\* StartBusy keeps the invariant.
LEMMA StartBusyKeeps ==
  ASSUME HostIInv, NEW r \in Recordings, StartBusy(r)
  PROVE  Sound'
<1>1. TypeOK /\ Sound /\ minted \in Nat
  BY MintedIs DEF HostIInv, Sound
<1>2. /\ CallsStay(r) /\ call'[r] = Quiet /\ call'[r].at = "idle" /\ call'[r].kind = "none"
      /\ call[r].at = "asking" /\ Answered(r)
      /\ \A q \in Recordings : Told(q)' = Told(q)
      /\ UNCHANGED <<slot, lock, worker, commands, stream, audio, enders, troubled, tray, posted,
                     main, js, minted>>
  BY <1>1, CommandAnswers, ToldStays DEF StartBusy, Asking, host, capture, shell, page
<1>3. TypedAt(r) /\ StartHasNoWorker(r) /\ OpeningIsSound(r) /\ StopIsSound(r) /\ KeepsChunks(r)
      /\ WorkerIsOwned(r)
  BY <1>1, Typed DEF Sound, RecordingsAreSound, WorkersAreOwned
<1>4. \A q \in Recordings : q # r => SameAt(q)
  BY <1>2, <1>3 DEF SameAt, TypedAt, CallsStay
<1>5. StartHasNoWorker(r)'
  BY <1>2, <1>3 DEF StartHasNoWorker, KeepsChunks
<1>6. OpeningIsSound(r)'
  BY <1>2, <1>3 DEF OpeningIsSound, KeepsChunks
<1>7. StopIsSound(r)'
  BY <1>2 DEF StopIsSound, KeepsChunks
<1>8. KeepsChunks(r)'
  BY <1>2, <1>3 DEF KeepsChunks
<1>9. RecordingsAreSound'
  BY <1>1, <1>4, <1>5, <1>6, <1>7, <1>8, Same DEF Sound, RecordingsAreSound
<1>10. LockIsAccounted'
  BY <1>1, <1>2, <1>3 DEF Sound, LockIsAccounted, CallsStay, StopIsSound, WorkerIsOwned
<1>11. WorkersAreOwned'
  BY <1>1, <1>2, <1>3 DEF Sound, WorkersAreOwned, WorkerIsOwned, Live, Held, LockIsAccounted,
       OneWorker, CallsStay, OpeningIsSound
<1>12. TrayIsSound'
  BY <1>1, <1>2 DEF Sound, TrayIsSound, Capturing, CallsStay
<1>13. (OneWorker /\ SlotIsSound /\ SlotIsClaimable /\ EndedTruly /\ TroubleIsKnown
        /\ PagesNameTheMinted)'
  BY <1>1, <1>2 DEF Sound, OneWorker, Live, WorkerIsOwned, Held, SlotIsSound, Told,
       SlotIsClaimable, EndedTruly, TroubleIsKnown, PagesNameTheMinted
<1> QED BY <1>9, <1>10, <1>11, <1>12, <1>13 DEF Sound

\* StartFails keeps the invariant.
LEMMA StartFailsKeeps ==
  ASSUME HostIInv, NEW r \in Recordings, StartFails(r)
  PROVE  Sound'
<1>1. TypeOK /\ Sound /\ minted \in Nat
  BY MintedIs DEF HostIInv, Sound
<1>2. /\ CallsStay(r) /\ call'[r] = Quiet /\ call'[r].at = "idle" /\ call'[r].kind = "none"
      /\ call[r].at = "asking" /\ Answered(r)
      /\ \A q \in Recordings : Told(q)' = Told(q)
      /\ UNCHANGED <<slot, lock, worker, commands, stream, audio, enders, troubled, tray, posted,
                     main, js, minted>>
  BY <1>1, CommandAnswers, ToldStays DEF StartFails, Asking, host, capture, shell, page
<1>3. TypedAt(r) /\ StartHasNoWorker(r) /\ OpeningIsSound(r) /\ StopIsSound(r) /\ KeepsChunks(r)
      /\ WorkerIsOwned(r)
  BY <1>1, Typed DEF Sound, RecordingsAreSound, WorkersAreOwned
<1>4. \A q \in Recordings : q # r => SameAt(q)
  BY <1>2, <1>3 DEF SameAt, TypedAt, CallsStay
<1>5. StartHasNoWorker(r)'
  BY <1>2, <1>3 DEF StartHasNoWorker, KeepsChunks
<1>6. OpeningIsSound(r)'
  BY <1>2, <1>3 DEF OpeningIsSound, KeepsChunks
<1>7. StopIsSound(r)'
  BY <1>2 DEF StopIsSound, KeepsChunks
<1>8. KeepsChunks(r)'
  BY <1>2, <1>3 DEF KeepsChunks
<1>9. RecordingsAreSound'
  BY <1>1, <1>4, <1>5, <1>6, <1>7, <1>8, Same DEF Sound, RecordingsAreSound
<1>10. LockIsAccounted'
  BY <1>1, <1>2, <1>3 DEF Sound, LockIsAccounted, CallsStay, StopIsSound, WorkerIsOwned
<1>11. WorkersAreOwned'
  BY <1>1, <1>2, <1>3 DEF Sound, WorkersAreOwned, WorkerIsOwned, Live, Held, LockIsAccounted,
       OneWorker, CallsStay, OpeningIsSound
<1>12. TrayIsSound'
  BY <1>1, <1>2 DEF Sound, TrayIsSound, Capturing, CallsStay
<1>13. (OneWorker /\ SlotIsSound /\ SlotIsClaimable /\ EndedTruly /\ TroubleIsKnown
        /\ PagesNameTheMinted)'
  BY <1>1, <1>2 DEF Sound, OneWorker, Live, WorkerIsOwned, Held, SlotIsSound, Told,
       SlotIsClaimable, EndedTruly, TroubleIsKnown, PagesNameTheMinted
<1> QED BY <1>9, <1>10, <1>11, <1>12, <1>13 DEF Sound

\* StartOpens keeps the invariant.
LEMMA StartOpensKeeps ==
  ASSUME HostIInv, NEW r \in Recordings, StartOpens(r)
  PROVE  Sound'
<1>1. TypeOK /\ Sound /\ minted \in Nat
  BY MintedIs DEF HostIInv, Sound
<1>2. /\ call[r].at = "asking" /\ call[r].kind = "start" /\ slot = None /\ lock = None
      /\ CallsStay(r) /\ call'[r].at = "opening" /\ call'[r].kind = "start"
      /\ call'[r] # Quiet
      /\ WorkersStay(r) /\ worker'[r] = "opening" /\ lock' = r
      /\ Others(r) /\ audio'[r].file = "staged" /\ audio'[r].queued = audio[r].queued
      /\ audio'[r].written = audio[r].written /\ audio'[r].accepted = audio[r].accepted
      /\ \A q \in Recordings : Told(q)' = Told(q)
      /\ UNCHANGED <<slot, commands, stream, enders, troubled, tray, posted, main, js, minted>>
  BY <1>1, StartOpensDoes, ToldStays DEF StartOpens, host, capture, shell, page
<1>3. TypedAt(r) /\ StartHasNoWorker(r) /\ OpeningIsSound(r) /\ StopIsSound(r) /\ KeepsChunks(r)
      /\ WorkerIsOwned(r)
  BY <1>1, Typed DEF Sound, RecordingsAreSound, WorkersAreOwned
<1>4. \A q \in Recordings : q # r => SameAt(q)
  BY <1>2, <1>3 DEF SameAt, TypedAt, CallsStay, WorkersStay, Others
<1>5. StartHasNoWorker(r)'
  BY <1>1, <1>2, <1>3 DEF TypedAt, StartHasNoWorker
<1>6. OpeningIsSound(r)'
  BY <1>1, <1>2, <1>3 DEF StartHasNoWorker, OpeningIsSound
<1>7. StopIsSound(r)'
  BY <1>2 DEF StopIsSound, KeepsChunks
<1>8. KeepsChunks(r)'
  BY <1>2, <1>3 DEF StartHasNoWorker, KeepsChunks
<1>9. RecordingsAreSound'
  BY <1>1, <1>4, <1>5, <1>6, <1>7, <1>8, Same DEF Sound, RecordingsAreSound
<1>10. LockIsAccounted'
  BY <1>1, <1>2, <1>3 DEF Sound, LockIsAccounted, CallsStay, WorkerIsOwned
<1>11. OneWorker'
  BY <1>1, <1>2, <1>3 DEF Sound, OneWorker, Live, LockIsAccounted, WorkersAreOwned, WorkerIsOwned,
       Held, CallsStay, WorkersStay, StartHasNoWorker, KeepsChunks
<1>12. WorkersAreOwned'
  BY <1>1, <1>2, <1>3 DEF Sound, WorkersAreOwned, WorkerIsOwned, Live, Held, LockIsAccounted,
       OneWorker, CallsStay, WorkersStay, StartHasNoWorker, KeepsChunks
<1>13. SlotIsClaimable'
  BY <1>2 DEF SlotIsClaimable, CallsStay, WorkersStay
<1>14. TrayIsSound'
  BY <1>1, <1>2 DEF Sound, TrayIsSound, Capturing, CallsStay
<1>15. (SlotIsSound /\ EndedTruly /\ TroubleIsKnown /\ PagesNameTheMinted)'
  BY <1>1, <1>2 DEF Sound, SlotIsSound, EndedTruly, TroubleIsKnown, PagesNameTheMinted
<1> QED BY <1>9, <1>10, <1>11, <1>12, <1>13, <1>14, <1>15 DEF Sound

\* StartReturns keeps the invariant.
LEMMA StartReturnsKeeps ==
  ASSUME HostIInv, NEW r \in Recordings, StartReturns(r)
  PROVE  Sound'
<1>1. TypeOK /\ Sound /\ minted \in Nat
  BY MintedIs DEF HostIInv, Sound
<1>2. /\ call[r].at = "opening" /\ worker[r] # "opening" /\ lock' = None
      /\ CallsStay(r) /\ call'[r] = Quiet
      /\ \/ worker[r] = "done" /\ slot' = slot /\ js' = js /\ posted' = posted
         \/ /\ worker[r] # "done" /\ slot' # None /\ slot'.id = r /\ ~slot'.ended
            /\ posted' = TRUE
            /\ \A v \in Windows : js'[v].holds = js[v].holds \/ js'[v].holds = r
      /\ \A q \in Recordings : Told(q)' = Told(q)
      /\ UNCHANGED <<worker, commands, stream, audio, enders, troubled, tray, main, minted>>
  BY <1>1, StartReturnsDoes, ToldStays DEF StartReturns, host, capture, shell, page
<1>3. TypedAt(r) /\ StartHasNoWorker(r) /\ OpeningIsSound(r) /\ StopIsSound(r) /\ KeepsChunks(r)
      /\ WorkerIsOwned(r)
  BY <1>1, Typed DEF Sound, RecordingsAreSound, WorkersAreOwned
<1>4. \A q \in Recordings : q # r => SameAt(q)
  BY <1>2, <1>3 DEF SameAt, TypedAt, CallsStay
<1>5. StartHasNoWorker(r)'
  BY <1>2, <1>3 DEF TypedAt, StartHasNoWorker, KeepsChunks
<1>6. OpeningIsSound(r)'
  BY <1>2, <1>3 DEF TypedAt, OpeningIsSound, KeepsChunks
<1>7. StopIsSound(r)'
  BY <1>2, <1>3 DEF TypedAt, StopIsSound, KeepsChunks
<1>8. KeepsChunks(r)'
  BY <1>2, <1>3 DEF KeepsChunks
<1>9. RecordingsAreSound'
  BY <1>1, <1>4, <1>5, <1>6, <1>7, <1>8, Same DEF Sound, RecordingsAreSound
<1>10. LockIsAccounted'
  BY <1>1, <1>2, <1>3 DEF Sound, TypedAt, LockIsAccounted, CallsStay
<1>11. WorkersAreOwned'
  BY <1>1, <1>2 DEF Sound, WorkersAreOwned, WorkerIsOwned, Live, Held, LockIsAccounted
<1>12. SlotIsSound'
  BY <1>1, <1>2, <1>3 DEF Sound, SlotIsSound, LockIsAccounted, OpeningIsSound, StopIsSound,
       StartHasNoWorker
<1>13. SlotIsClaimable'
  BY <1>1, <1>2, <1>3 DEF Sound, TypedAt, SlotIsClaimable, CallsStay, OpeningIsSound,
       WorkerIsOwned
<1>14. EndedTruly'
  BY <1>1, <1>2, <1>3 DEF Sound, EndedTruly
<1>15. PagesNameTheMinted'
  BY <1>1, <1>2, <1>3 DEF Sound, PagesNameTheMinted, OpeningIsSound, StopIsSound,
       StartHasNoWorker, KeepsChunks, WorkerIsOwned
<1>16. TrayIsSound'
  BY <1>1, <1>2 DEF Sound, TrayIsSound, Capturing, CallsStay
<1>17. (OneWorker /\ TroubleIsKnown)'
  BY <1>1, <1>2 DEF Sound, OneWorker, Live, WorkerIsOwned, Held, TroubleIsKnown
<1> QED BY <1>9, <1>10, <1>11, <1>12, <1>13, <1>14, <1>15, <1>16, <1>17 DEF Sound

\* EndRefused keeps the invariant.
LEMMA EndRefusedKeeps ==
  ASSUME HostIInv, NEW r \in Recordings, NEW kind \in {"stop", "cancel"}, EndRefused(r, kind)
  PROVE  Sound'
<1>1. TypeOK /\ Sound /\ minted \in Nat
  BY MintedIs DEF HostIInv, Sound
<1>2. /\ CallsStay(r) /\ call'[r] = Quiet /\ call'[r].at = "idle" /\ call'[r].kind = "none"
      /\ call[r].at = "asking" /\ Answered(r) /\ posted' = TRUE
      /\ \A q \in Recordings : Told(q)' = Told(q)
      /\ UNCHANGED <<slot, lock, worker, commands, stream, audio, enders, troubled, tray, main,
                     js, minted>>
  BY <1>1, CommandAnswers, ToldStays DEF EndRefused, Asking, host, capture, shell, page
<1>3. TypedAt(r) /\ StartHasNoWorker(r) /\ OpeningIsSound(r) /\ StopIsSound(r) /\ KeepsChunks(r)
      /\ WorkerIsOwned(r)
  BY <1>1, Typed DEF Sound, RecordingsAreSound, WorkersAreOwned
<1>4. \A q \in Recordings : q # r => SameAt(q)
  BY <1>2, <1>3 DEF SameAt, TypedAt, CallsStay
<1>5. StartHasNoWorker(r)'
  BY <1>2, <1>3 DEF StartHasNoWorker, KeepsChunks
<1>6. OpeningIsSound(r)'
  BY <1>2, <1>3 DEF OpeningIsSound, KeepsChunks
<1>7. StopIsSound(r)'
  BY <1>2 DEF StopIsSound, KeepsChunks
<1>8. KeepsChunks(r)'
  BY <1>2, <1>3 DEF KeepsChunks
<1>9. RecordingsAreSound'
  BY <1>1, <1>4, <1>5, <1>6, <1>7, <1>8, Same DEF Sound, RecordingsAreSound
<1>10. LockIsAccounted'
  BY <1>1, <1>2, <1>3 DEF Sound, LockIsAccounted, CallsStay, StopIsSound, WorkerIsOwned
<1>11. WorkersAreOwned'
  BY <1>1, <1>2, <1>3 DEF Sound, WorkersAreOwned, WorkerIsOwned, Live, Held, LockIsAccounted,
       OneWorker, CallsStay, OpeningIsSound
<1>12. TrayIsSound'
  BY <1>1, <1>2, <1>3 DEF TrayIsSound, CallsStay
<1>13. (OneWorker /\ SlotIsSound /\ SlotIsClaimable /\ EndedTruly /\ TroubleIsKnown
        /\ PagesNameTheMinted)'
  BY <1>1, <1>2 DEF Sound, OneWorker, Live, WorkerIsOwned, Held, SlotIsSound, Told,
       SlotIsClaimable, EndedTruly, TroubleIsKnown, PagesNameTheMinted
<1> QED BY <1>9, <1>10, <1>11, <1>12, <1>13 DEF Sound

\* EndTakes keeps the invariant.
LEMMA EndTakesKeeps ==
  ASSUME HostIInv, NEW r \in Recordings, NEW kind \in {"stop", "cancel"}, EndTakes(r, kind)
  PROVE  Sound'
<1>1. TypeOK /\ Sound /\ minted \in Nat
  BY MintedIs DEF HostIInv, Sound
<1>2. /\ CallsStay(r) /\ call'[r].at = "joining" /\ call'[r].kind = kind /\ call'[r] # Quiet
      /\ call[r].at = "asking" /\ call[r].kind = kind /\ lock = None /\ lock' = r
      /\ slot # None /\ slot.id = r /\ slot' = None
      /\ CommandsStay(r) /\ Told(r)' = Told(r) \cup {kind}
      /\ UNCHANGED <<worker, stream, audio, enders, troubled, tray, posted, main, js, minted>>
  <2>1. TypeOK /\ EndTakes(r, kind)
    BY <1>1
  <2>2. UNCHANGED <<worker, stream, audio, enders, troubled, tray, posted, main, js, minted>>
    BY DEF EndTakes, shell, page
  <2> QED BY <2>1, <2>2, EndTakesDoes
<1>3. TypedAt(r) /\ StartHasNoWorker(r) /\ OpeningIsSound(r) /\ StopIsSound(r) /\ KeepsChunks(r)
      /\ WorkerIsOwned(r)
  BY <1>1, Typed DEF Sound, RecordingsAreSound, WorkersAreOwned
<1>4. \A q \in Recordings : q # r => SameAt(q)
  BY <1>2, <1>3 DEF SameAt, TypedAt, CallsStay, CommandsStay
<1>5. StartHasNoWorker(r)'
  BY <1>1, <1>2, <1>3 DEF Sound, StartHasNoWorker, KeepsChunks, Held, SlotIsSound,
       SlotIsClaimable, LockIsAccounted
<1>6. OpeningIsSound(r)'
  BY <1>1, <1>2, <1>3 DEF Sound, OpeningIsSound, KeepsChunks, Held, SlotIsSound, SlotIsClaimable,
       LockIsAccounted
<1>7. StopIsSound(r)'
  BY <1>1, <1>2, <1>3 DEF Sound, StopIsSound, KeepsChunks, Held, SlotIsSound, SlotIsClaimable,
       LockIsAccounted
<1>8. KeepsChunks(r)'
  BY <1>2, <1>3 DEF KeepsChunks
<1>9. RecordingsAreSound'
  BY <1>1, <1>4, <1>5, <1>6, <1>7, <1>8, Same DEF Sound, RecordingsAreSound
<1>10. LockIsAccounted'
  BY <1>1, <1>2 DEF Sound, LockIsAccounted, CallsStay, OpeningIsSound
<1>11. WorkersAreOwned'
  BY <1>1, <1>2, <1>3 DEF Sound, WorkersAreOwned, WorkerIsOwned, Live, Held, LockIsAccounted,
       KeepsChunks
<1>12. SlotIsSound'
  BY <1>2 DEF SlotIsSound, CommandsStay
<1>13. SlotIsClaimable'
  BY <1>1, <1>2 DEF SlotIsClaimable, CallsStay
<1>14. EndedTruly'
  BY <1>1, <1>2, <1>3 DEF EndedTruly, CommandsStay
<1>15. TrayIsSound'
  BY <1>1, <1>2, <1>3 DEF Sound, TrayIsSound, LockIsAccounted, CallsStay, CommandsStay
<1>16. (OneWorker /\ TroubleIsKnown /\ PagesNameTheMinted)'
  BY <1>1, <1>2 DEF Sound, OneWorker, Live, WorkerIsOwned, Held, TroubleIsKnown,
       PagesNameTheMinted
<1> QED BY <1>9, <1>10, <1>11, <1>12, <1>13, <1>14, <1>15, <1>16 DEF Sound

\* EndReturns keeps the invariant.
LEMMA EndReturnsKeeps ==
  ASSUME HostIInv, NEW r \in Recordings, EndReturns(r)
  PROVE  Sound'
<1>1. TypeOK /\ Sound /\ minted \in Nat
  BY MintedIs DEF HostIInv, Sound
<1>2. /\ CallsStay(r) /\ call[r].at = "joining" /\ worker[r] = "done" /\ lock' = None
      /\ \/ call[r].kind = "stop" /\ call'[r].at = "publishing" /\ call'[r].kind = "stop"
            /\ call'[r] # Quiet
         \/ call'[r] = Quiet
      /\ posted' = TRUE
      /\ \A q \in Recordings : Told(q)' = Told(q)
      /\ UNCHANGED <<slot, worker, commands, stream, audio, enders, troubled, tray, main, js,
                     minted>>
  BY <1>1, EndReturnsDoes, ToldStays DEF EndReturns, host, capture, shell, page
<1>3. TypedAt(r) /\ StartHasNoWorker(r) /\ OpeningIsSound(r) /\ StopIsSound(r) /\ KeepsChunks(r)
      /\ WorkerIsOwned(r)
  BY <1>1, Typed DEF Sound, RecordingsAreSound, WorkersAreOwned
<1>4. \A q \in Recordings : q # r => SameAt(q)
  BY <1>2, <1>3 DEF SameAt, TypedAt, CallsStay
<1>5. StartHasNoWorker(r)'
  BY <1>1, <1>2, <1>3 DEF TypedAt, StartHasNoWorker
<1>6. OpeningIsSound(r)'
  BY <1>1, <1>2, <1>3 DEF TypedAt, OpeningIsSound
<1>7. StopIsSound(r)'
  BY <1>1, <1>2, <1>3 DEF TypedAt, StopIsSound
<1>8. KeepsChunks(r)'
  BY <1>2, <1>3 DEF KeepsChunks
<1>9. RecordingsAreSound'
  BY <1>1, <1>4, <1>5, <1>6, <1>7, <1>8, Same DEF Sound, RecordingsAreSound
<1>10. LockIsAccounted'
  BY <1>1, <1>2, <1>3 DEF Sound, TypedAt, LockIsAccounted, CallsStay, KeepsChunks, WorkerIsOwned
<1>11. WorkersAreOwned'
  BY <1>1, <1>2 DEF Sound, WorkersAreOwned, WorkerIsOwned, Live, Held, LockIsAccounted
<1>12. TrayIsSound'
  BY <1>1, <1>2, <1>3 DEF TrayIsSound, CallsStay
<1>13. (OneWorker /\ SlotIsSound /\ SlotIsClaimable /\ EndedTruly /\ TroubleIsKnown
        /\ PagesNameTheMinted)'
  BY <1>1, <1>2 DEF Sound, OneWorker, Live, WorkerIsOwned, Held, SlotIsSound, Told,
       SlotIsClaimable, EndedTruly, TroubleIsKnown, PagesNameTheMinted
<1> QED BY <1>9, <1>10, <1>11, <1>12, <1>13 DEF Sound

\* Publish keeps the invariant.
LEMMA PublishKeeps ==
  ASSUME HostIInv, NEW r \in Recordings, Publish(r)
  PROVE  Sound'
<1>1. TypeOK /\ Sound /\ minted \in Nat
  BY MintedIs DEF HostIInv, Sound
<1>2. /\ call[r].at = "publishing" /\ Others(r) /\ audio'[r].file \in {"published", "gone"}
      /\ audio'[r].queued = audio[r].queued
      /\ audio'[r].written = audio[r].written /\ audio'[r].accepted = audio[r].accepted
      /\ CallsStay(r) /\ call'[r] = Quiet /\ call'[r].at = "idle" /\ call'[r].kind = "none"
      /\ Answered(r)
      /\ \A q \in Recordings : Told(q)' = Told(q)
      /\ UNCHANGED <<slot, lock, worker, commands, stream, enders, troubled, tray, posted, main,
                     js, minted>>
  BY <1>1, PublishDoes, CommandAnswers, ToldStays DEF Publish, host, capture, shell, page
<1>3. TypedAt(r) /\ StartHasNoWorker(r) /\ OpeningIsSound(r) /\ StopIsSound(r) /\ KeepsChunks(r)
      /\ WorkerIsOwned(r)
  BY <1>1, Typed DEF Sound, RecordingsAreSound, WorkersAreOwned
<1>4. \A q \in Recordings : q # r => SameAt(q)
  BY <1>2, <1>3 DEF SameAt, TypedAt, CallsStay, Others
<1>5. StartHasNoWorker(r)'
  BY <1>2, <1>3 DEF StartHasNoWorker, KeepsChunks
<1>6. OpeningIsSound(r)'
  BY <1>2, <1>3 DEF OpeningIsSound, KeepsChunks
<1>7. StopIsSound(r)'
  BY <1>2 DEF StopIsSound, KeepsChunks
<1>8. KeepsChunks(r)'
  BY <1>2, <1>3 DEF StopIsSound, KeepsChunks
<1>9. RecordingsAreSound'
  BY <1>1, <1>4, <1>5, <1>6, <1>7, <1>8, Same DEF Sound, RecordingsAreSound
<1>10. LockIsAccounted'
  BY <1>1, <1>2 DEF Sound, LockIsAccounted, CallsStay, OpeningIsSound
<1>11. WorkersAreOwned'
  BY <1>1, <1>2, <1>3 DEF Sound, WorkersAreOwned, WorkerIsOwned, Live, Held, LockIsAccounted,
       OneWorker, CallsStay, Others, KeepsChunks
<1>12. SlotIsClaimable'
  BY <1>1, <1>2, <1>3 DEF Sound, TypedAt, SlotIsClaimable, CallsStay, Others, OpeningIsSound,
       StopIsSound, StartHasNoWorker
<1>13. TrayIsSound'
  BY <1>1, <1>2, <1>3 DEF Sound, TrayIsSound, Capturing, CallsStay, Others
<1>14. (OneWorker /\ SlotIsSound /\ EndedTruly /\ TroubleIsKnown /\ PagesNameTheMinted)'
  BY <1>1, <1>2 DEF Sound, OneWorker, Live, WorkerIsOwned, Held, SlotIsSound, Told, EndedTruly,
       TroubleIsKnown, PagesNameTheMinted
<1> QED BY <1>9, <1>10, <1>11, <1>12, <1>13, <1>14 DEF Sound

\* WorkerOpens keeps the invariant.
LEMMA WorkerOpensKeeps ==
  ASSUME HostIInv, NEW r \in Recordings, WorkerOpens(r)
  PROVE  Sound'
<1>1. TypeOK /\ Sound /\ minted \in Nat
  BY MintedIs DEF HostIInv, Sound
<1>2. /\ WorkersStay(r) /\ worker[r] = "opening" /\ worker'[r] = "capturing"
      /\ StreamsStay(r) /\ stream'[r] = "open"
      /\ \A q \in Recordings : Told(q)' = Told(q)
      /\ UNCHANGED <<slot, lock, call, commands, audio, enders, troubled, tray, posted, main, js,
                     minted>>
  BY <1>1, WorkerOpensDoes, ToldStays DEF WorkerOpens, host, capture, shell, page
<1>3. TypedAt(r) /\ StartHasNoWorker(r) /\ OpeningIsSound(r) /\ StopIsSound(r) /\ KeepsChunks(r)
      /\ WorkerIsOwned(r)
  BY <1>1, Typed DEF Sound, RecordingsAreSound, WorkersAreOwned
<1>4. \A q \in Recordings : q # r => SameAt(q)
  BY <1>2, <1>3 DEF SameAt, TypedAt, WorkersStay, StreamsStay
<1>5. StartHasNoWorker(r)'
  BY <1>2, <1>3 DEF StartHasNoWorker, KeepsChunks
<1>6. OpeningIsSound(r)'
  BY <1>2, <1>3 DEF OpeningIsSound, KeepsChunks
<1>7. StopIsSound(r)'
  BY <1>2, <1>3 DEF StopIsSound, KeepsChunks
<1>8. KeepsChunks(r)'
  BY <1>2, <1>3 DEF KeepsChunks, WorkerIsOwned
<1>9. RecordingsAreSound'
  BY <1>1, <1>4, <1>5, <1>6, <1>7, <1>8, Same DEF Sound, RecordingsAreSound
<1>10. OneWorker'
  BY <1>1, <1>2, <1>3 DEF Sound, OneWorker, Live, WorkersStay, StreamsStay, OpeningIsSound
<1>11. WorkersAreOwned'
  BY <1>1, <1>2, <1>3 DEF Sound, WorkersAreOwned, WorkerIsOwned, Live, Held, LockIsAccounted,
       OneWorker, WorkersStay, StreamsStay, KeepsChunks
<1>12. SlotIsClaimable'
  BY <1>1, <1>2, <1>3 DEF Sound, SlotIsClaimable, LockIsAccounted, KeepsChunks, WorkerIsOwned
<1>13. (LockIsAccounted /\ SlotIsSound /\ EndedTruly /\ TroubleIsKnown /\ PagesNameTheMinted
        /\ TrayIsSound)'
  BY <1>1, <1>2 DEF Sound, LockIsAccounted, SlotIsSound, Told, EndedTruly, TroubleIsKnown,
       PagesNameTheMinted, TrayIsSound, Capturing
<1> QED BY <1>9, <1>10, <1>11, <1>12, <1>13 DEF Sound

\* WorkerCannotOpen keeps the invariant.
LEMMA WorkerCannotOpenKeeps ==
  ASSUME HostIInv, NEW r \in Recordings, WorkerCannotOpen(r)
  PROVE  Sound'
<1>1. TypeOK /\ Sound /\ minted \in Nat
  BY MintedIs DEF HostIInv, Sound
<1>2. /\ WorkersStay(r) /\ worker[r] = "opening" /\ worker'[r] = "done"
      /\ Others(r) /\ audio'[r].file = "gone" /\ audio'[r].queued = audio[r].queued
      /\ \A q \in Recordings : Told(q)' = Told(q)
      /\ UNCHANGED <<slot, lock, call, commands, stream, enders, troubled, tray, posted, main,
                     js, minted>>
  BY <1>1, WorkerCannotOpenDoes, ToldStays DEF WorkerCannotOpen, host, capture, shell, page
<1>3. TypedAt(r) /\ StartHasNoWorker(r) /\ OpeningIsSound(r) /\ StopIsSound(r) /\ KeepsChunks(r)
      /\ WorkerIsOwned(r)
  BY <1>1, Typed DEF Sound, RecordingsAreSound, WorkersAreOwned
<1>4. \A q \in Recordings : q # r => SameAt(q)
  BY <1>2, <1>3 DEF SameAt, TypedAt, WorkersStay, Others
<1>5. StartHasNoWorker(r)'
  BY <1>2, <1>3 DEF StartHasNoWorker, KeepsChunks
<1>6. OpeningIsSound(r)'
  BY <1>2, <1>3 DEF OpeningIsSound, KeepsChunks
<1>7. StopIsSound(r)'
  BY <1>2, <1>3 DEF StopIsSound, KeepsChunks, WorkerIsOwned
<1>8. KeepsChunks(r)'
  BY <1>2, <1>3 DEF KeepsChunks, WorkerIsOwned
<1>9. RecordingsAreSound'
  BY <1>1, <1>4, <1>5, <1>6, <1>7, <1>8, Same DEF Sound, RecordingsAreSound
<1>10. OneWorker'
  BY <1>1, <1>2, <1>3 DEF Sound, OneWorker, Live, WorkersStay, Others, OpeningIsSound
<1>11. WorkersAreOwned'
  BY <1>1, <1>2, <1>3 DEF Sound, WorkersAreOwned, WorkerIsOwned, Live, Held, LockIsAccounted,
       OneWorker, WorkersStay, Others, KeepsChunks
<1>12. SlotIsClaimable'
  BY <1>1, <1>2, <1>3 DEF Sound, SlotIsClaimable, LockIsAccounted, KeepsChunks, WorkerIsOwned
<1>13. (LockIsAccounted /\ SlotIsSound /\ EndedTruly /\ TroubleIsKnown /\ PagesNameTheMinted
        /\ TrayIsSound)'
  BY <1>1, <1>2 DEF Sound, LockIsAccounted, SlotIsSound, Told, EndedTruly, TroubleIsKnown,
       PagesNameTheMinted, TrayIsSound, Capturing
<1> QED BY <1>9, <1>10, <1>11, <1>12, <1>13 DEF Sound

\* Write keeps the invariant.
LEMMA WriteKeeps ==
  ASSUME HostIInv, NEW r \in Recordings, Write(r)
  PROVE  Sound'
<1>1. TypeOK /\ Sound /\ minted \in Nat
  BY MintedIs DEF HostIInv, Sound
<1>2. /\ Others(r) /\ audio'[r].file = audio[r].file
      /\ audio'[r].queued = audio[r].queued - 1 /\ audio'[r].written = audio[r].written + 1
      /\ audio'[r].accepted = audio[r].accepted
      /\ worker[r] = "capturing" /\ audio[r].queued > 0
      /\ \A q \in Recordings : Told(q)' = Told(q)
      /\ UNCHANGED <<slot, lock, call, worker, commands, stream, enders, troubled, tray, posted,
                     main, js, minted>>
  BY <1>1, WriteMoves, WriteFrom, ToldStays DEF Write, host, capture, shell, page
<1>3. TypedAt(r) /\ StartHasNoWorker(r) /\ OpeningIsSound(r) /\ StopIsSound(r) /\ KeepsChunks(r)
      /\ WorkerIsOwned(r)
  BY <1>1, Typed DEF Sound, RecordingsAreSound, WorkersAreOwned
<1>4. \A q \in Recordings : q # r => SameAt(q)
  BY <1>2, <1>3 DEF SameAt, TypedAt, Others
<1>5. OpeningIsSound(r)'
  BY <1>2, <1>3 DEF OpeningIsSound, KeepsChunks
<1>6. StopIsSound(r)'
  BY <1>2, <1>3 DEF StopIsSound, KeepsChunks
<1>7. KeepsChunks(r)'
  <2>1. worker[r] = "capturing" /\ worker'[r] = "capturing" /\ stream'[r] = stream[r]
        /\ stream[r] # "closed"
    BY <1>2, <1>3 DEF KeepsChunks
  <2>2. audio[r].file \notin {"finished", "published", "gone"}
    BY <2>1, <1>3 DEF KeepsChunks
  <2>3. /\ audio[r].queued \in Nat /\ audio[r].written \in Nat /\ audio[r].accepted \in Nat
        /\ audio'[r].queued = audio[r].queued - 1 /\ audio'[r].written = audio[r].written + 1
        /\ audio'[r].accepted = audio[r].accepted
    BY <1>2, <1>3 DEF TypedAt
  <2>4. audio[r].written + audio[r].queued = audio[r].accepted
            => audio'[r].written + audio'[r].queued = audio'[r].accepted
    BY <2>3
  <2> QED BY <1>2, <1>3, <2>4 DEF KeepsChunks
<1>8. StartHasNoWorker(r)'
  BY <1>2, <1>3 DEF StartHasNoWorker
<1>9. RecordingsAreSound'
  BY <1>1, <1>4, <1>5, <1>6, <1>7, <1>8, Same DEF Sound, RecordingsAreSound
<1>10. SlotIsClaimable'
  BY <1>1, <1>2, <1>3 DEF Sound, TypedAt, SlotIsClaimable, Others, OpeningIsSound, WorkerIsOwned
<1>11. (LockIsAccounted /\ OneWorker /\ WorkersAreOwned /\ SlotIsSound /\ EndedTruly
        /\ TroubleIsKnown /\ PagesNameTheMinted /\ TrayIsSound)'
  BY <1>1, <1>2 DEF Sound, LockIsAccounted, OneWorker, Live, WorkerIsOwned, Held, WorkersAreOwned,
       SlotIsSound, Told, EndedTruly, TroubleIsKnown, PagesNameTheMinted, TrayIsSound, Capturing
<1> QED BY <1>9, <1>10, <1>11 DEF Sound

\* WriteFails keeps the invariant.
LEMMA WriteFailsKeeps ==
  ASSUME HostIInv, NEW r \in Recordings, WriteFails(r)
  PROVE  Sound'
<1>1. TypeOK /\ Sound /\ minted \in Nat
  BY MintedIs DEF HostIInv, Sound
<1>2. /\ WorkersStay(r) /\ worker[r] = "capturing" /\ worker'[r] = "waiting"
      /\ StreamsStay(r) /\ stream'[r] = "closed" /\ troubled' = troubled \cup {r}
      /\ enders' = enders \cup {r}
      /\ Others(r) /\ audio'[r].file = audio[r].file /\ audio'[r].queued = 0
      /\ \A q \in Recordings : Told(q)' = Told(q)
      /\ UNCHANGED <<slot, lock, call, commands, tray, posted, main, js, minted>>
  BY <1>1, WriteFailsDoes, ToldStays DEF WriteFails, host, capture, shell, page
<1>3. TypedAt(r) /\ StartHasNoWorker(r) /\ OpeningIsSound(r) /\ StopIsSound(r) /\ KeepsChunks(r)
      /\ WorkerIsOwned(r)
  BY <1>1, Typed DEF Sound, RecordingsAreSound, WorkersAreOwned
<1>4. \A q \in Recordings : q # r => SameAt(q)
  BY <1>2, <1>3 DEF SameAt, TypedAt, WorkersStay, StreamsStay, Others
<1>5. StartHasNoWorker(r)'
  BY <1>2, <1>3 DEF StartHasNoWorker, KeepsChunks
<1>6. OpeningIsSound(r)'
  BY <1>2, <1>3 DEF OpeningIsSound, KeepsChunks
<1>7. StopIsSound(r)'
  BY <1>2, <1>3 DEF StopIsSound, KeepsChunks
<1>8. KeepsChunks(r)'
  BY <1>2, <1>3 DEF KeepsChunks, WorkerIsOwned
<1>9. RecordingsAreSound'
  BY <1>1, <1>4, <1>5, <1>6, <1>7, <1>8, Same DEF Sound, RecordingsAreSound
<1>10. OneWorker'
  BY <1>1, <1>2, <1>3 DEF Sound, OneWorker, Live, WorkersStay, StreamsStay, Others, KeepsChunks
<1>11. WorkersAreOwned'
  BY <1>1, <1>2, <1>3 DEF Sound, WorkersAreOwned, WorkerIsOwned, Live, Held, LockIsAccounted,
       OneWorker, WorkersStay, StreamsStay, StartHasNoWorker, KeepsChunks
<1>12. SlotIsClaimable'
  BY <1>1, <1>2, <1>3 DEF Sound, TypedAt, SlotIsClaimable, WorkersStay, StreamsStay, Others,
       OpeningIsSound, StopIsSound, WorkerIsOwned
<1>13. EndedTruly'
  BY <1>1, <1>2 DEF Sound, EndedTruly, Others
<1>14. TroubleIsKnown'
  BY <1>1, <1>2 DEF Sound, TroubleIsKnown
<1>15. (LockIsAccounted /\ SlotIsSound /\ PagesNameTheMinted /\ TrayIsSound)'
  BY <1>1, <1>2 DEF Sound, LockIsAccounted, SlotIsSound, Told, PagesNameTheMinted, TrayIsSound,
       Capturing
<1> QED BY <1>9, <1>10, <1>11, <1>12, <1>13, <1>14, <1>15 DEF Sound

\* Obey keeps the invariant.
LEMMA ObeyKeeps ==
  ASSUME HostIInv, NEW r \in Recordings, Obey(r)
  PROVE  Sound'
<1>1. TypeOK /\ Sound /\ minted \in Nat
  BY MintedIs DEF HostIInv, Sound
<1>2. /\ WorkersStay(r) /\ worker[r] = "capturing"
      /\ worker'[r] = IF Head(commands[r]) = "end" THEN "waiting" ELSE "done"
      /\ StreamsStay(r) /\ stream'[r] = "closed"
      /\ troubled \subseteq troubled' /\ troubled' \subseteq troubled \cup {r}
      /\ CommandsStay(r) /\ Head(commands[r]) \in Told(r) /\ Told(r)' \subseteq Told(r)
      /\ LET command == Head(commands[r])
         IN  /\ Others(r) /\ audio'[r].queued = 0 /\ audio'[r].accepted = audio[r].accepted
             /\ command \in {"stop", "cancel", "end"}
             /\ audio'[r].file = CASE command = "stop" -> "finished"
                                   [] command = "cancel" -> "gone"
                                   [] command = "end" -> audio[r].file
             /\ r \notin troubled' /\ command # "cancel" =>
                    audio'[r].written = audio[r].written + audio[r].queued
      /\ UNCHANGED <<slot, lock, call, enders, tray, posted, main, js, minted>>
  BY <1>1, ObeyDoes, ObeyDrains DEF host, shell, page
<1>3. TypedAt(r) /\ StartHasNoWorker(r) /\ OpeningIsSound(r) /\ StopIsSound(r) /\ KeepsChunks(r)
      /\ WorkerIsOwned(r)
  BY <1>1, Typed DEF Sound, RecordingsAreSound, WorkersAreOwned
<1>4. \A q \in Recordings : q # r => SameAt(q)
  BY <1>2, <1>3 DEF SameAt, TypedAt, WorkersStay, CommandsStay, StreamsStay, Others
<1>5. StartHasNoWorker(r)'
  BY <1>2, <1>3 DEF StartHasNoWorker, KeepsChunks
<1>6. OpeningIsSound(r)'
  BY <1>2, <1>3 DEF OpeningIsSound, KeepsChunks
<1>7. StopIsSound(r)'
  BY <1>2, <1>3 DEF StopIsSound, KeepsChunks
<1>8. KeepsChunks(r)'
  <2>1. /\ worker'[r] # "capturing" /\ worker'[r] # "none" /\ stream'[r] = "closed"
        /\ audio'[r].queued = 0
    BY <1>2
  <2>2. audio'[r].file \in {"finished", "published", "gone"} => worker'[r] = "done"
    BY <1>2, <1>3 DEF KeepsChunks
  <2>3. ASSUME r \notin troubled', audio'[r].file # "gone"
        PROVE  audio'[r].written + audio'[r].queued = audio'[r].accepted
    <3>1. Head(commands[r]) # "cancel" /\ r \notin troubled /\ audio[r].file # "gone"
      BY <1>2, <1>3, <2>3 DEF KeepsChunks
    <3>2. audio'[r].written = audio[r].written + audio[r].queued
      BY <1>2, <2>3
    <3> QED BY <1>2, <1>3, <3>1, <3>2 DEF KeepsChunks, TypedAt
  <2> QED BY <2>1, <2>2, <2>3 DEF KeepsChunks
<1>9. RecordingsAreSound'
  BY <1>1, <1>4, <1>5, <1>6, <1>7, <1>8, Same DEF Sound, RecordingsAreSound
<1>10. OneWorker'
  BY <1>1, <1>2, <1>3 DEF Sound, OneWorker, Live, WorkersStay, CommandsStay, StreamsStay,
       StartHasNoWorker, KeepsChunks
<1>11. WorkersAreOwned'
  BY <1>1, <1>2, <1>3 DEF Sound, WorkersAreOwned, WorkerIsOwned, Live, Held, LockIsAccounted,
       OneWorker, WorkersStay, CommandsStay, StreamsStay, Others, KeepsChunks
<1>12. SlotIsSound'
  BY <1>1, <1>2, <1>3 DEF Sound, TypedAt, SlotIsSound, CommandsStay, StreamsStay, WorkerIsOwned
<1>13. SlotIsClaimable'
  <2>1. CASE slot # None /\ slot.id = r
    <3>1. Head(commands[r]) = "end"
      BY <1>1, <1>2, <2>1 DEF Sound, SlotIsSound
    <3> QED BY <1>1, <1>2, <2>1, <3>1 DEF Sound, SlotIsClaimable
  <2>2. CASE slot # None /\ slot.id # r
    <3>1. slot.id \in Recordings
      BY <1>3, <2>2 DEF TypedAt
    <3> QED BY <1>1, <1>2, <2>2, <3>1 DEF Sound, SlotIsClaimable, WorkersStay, Others
  <2>3. CASE slot = None
    BY <1>2, <2>3 DEF SlotIsClaimable
  <2> QED BY <2>1, <2>2, <2>3
<1>14. EndedTruly'
  BY <1>1, <1>2, <1>3 DEF Sound, EndedTruly
<1>15. TroubleIsKnown'
  BY <1>1, <1>2 DEF Sound, TroubleIsKnown, Others
<1>16. (LockIsAccounted /\ PagesNameTheMinted /\ TrayIsSound)'
  BY <1>1, <1>2 DEF Sound, LockIsAccounted, PagesNameTheMinted, TrayIsSound, Capturing
<1> QED BY <1>9, <1>10, <1>11, <1>12, <1>13, <1>14, <1>15, <1>16 DEF Sound

\* AwaitResolution keeps the invariant.
LEMMA AwaitResolutionKeeps ==
  ASSUME HostIInv, NEW r \in Recordings, AwaitResolution(r)
  PROVE  Sound'
<1>1. TypeOK /\ Sound /\ minted \in Nat
  BY MintedIs DEF HostIInv, Sound
<1>2. /\ WorkersStay(r) /\ worker[r] = "waiting"
      /\ worker'[r] = IF Head(commands[r]) = "end" THEN "waiting" ELSE "done"
      /\ CommandsStay(r) /\ Head(commands[r]) \in Told(r) /\ Told(r)' \subseteq Told(r)
      /\ Head(commands[r]) \in {"stop", "cancel", "end"}
      /\ Others(r) /\ audio'[r].queued = audio[r].queued
      /\ audio'[r].written = audio[r].written /\ audio'[r].accepted = audio[r].accepted
      /\ audio'[r].file = CASE Head(commands[r]) = "stop" -> "finished"
                            [] Head(commands[r]) = "cancel" -> "gone"
                            [] Head(commands[r]) = "end" -> audio[r].file
      /\ UNCHANGED <<slot, lock, call, stream, enders, troubled, tray, posted, main, js, minted>>
  BY <1>1, AwaitResolutionDoes DEF AwaitResolution, host, capture, shell, page
<1>3. TypedAt(r) /\ StartHasNoWorker(r) /\ OpeningIsSound(r) /\ StopIsSound(r) /\ KeepsChunks(r)
      /\ WorkerIsOwned(r)
  BY <1>1, Typed DEF Sound, RecordingsAreSound, WorkersAreOwned
<1>4. \A q \in Recordings : q # r => SameAt(q)
  BY <1>2, <1>3 DEF SameAt, TypedAt, WorkersStay, CommandsStay, Others
<1>5. StartHasNoWorker(r)'
  BY <1>2, <1>3 DEF StartHasNoWorker, KeepsChunks
<1>6. OpeningIsSound(r)'
  BY <1>2, <1>3 DEF OpeningIsSound, KeepsChunks
<1>7. StopIsSound(r)'
  BY <1>2, <1>3 DEF StopIsSound, KeepsChunks
<1>8. KeepsChunks(r)'
  BY <1>2, <1>3 DEF KeepsChunks, WorkerIsOwned
<1>9. RecordingsAreSound'
  BY <1>1, <1>4, <1>5, <1>6, <1>7, <1>8, Same DEF Sound, RecordingsAreSound
<1>10. OneWorker'
  BY <1>1, <1>2, <1>3 DEF Sound, OneWorker, Live, WorkersStay, CommandsStay, Others, KeepsChunks
<1>11. WorkersAreOwned'
  BY <1>1, <1>2, <1>3 DEF Sound, WorkersAreOwned, WorkerIsOwned, Live, Held, LockIsAccounted,
       OneWorker, WorkersStay, CommandsStay, StartHasNoWorker, KeepsChunks
<1>12. SlotIsSound'
  BY <1>1, <1>2, <1>3 DEF Sound, TypedAt, SlotIsSound, CommandsStay, Others
<1>13. SlotIsClaimable'
  BY <1>1, <1>2, <1>3 DEF Sound, TypedAt, SlotIsClaimable, SlotIsSound, WorkersStay, CommandsStay,
       Others, OpeningIsSound, StopIsSound
<1>14. (LockIsAccounted /\ EndedTruly /\ TroubleIsKnown /\ PagesNameTheMinted /\ TrayIsSound)'
  BY <1>1, <1>2 DEF Sound, LockIsAccounted, EndedTruly, TroubleIsKnown, PagesNameTheMinted,
       TrayIsSound, Capturing
<1> QED BY <1>9, <1>10, <1>11, <1>12, <1>13, <1>14 DEF Sound

\* HandOff keeps the invariant.
LEMMA HandOffKeeps ==
  ASSUME HostIInv, NEW r \in Recordings, HandOff(r)
  PROVE  Sound'
<1>1. TypeOK /\ Sound /\ minted \in Nat
  BY MintedIs DEF HostIInv, Sound
<1>2. /\ Others(r) /\ audio'[r].file = audio[r].file
      /\ audio'[r].queued = audio[r].queued + 1 /\ audio'[r].written = audio[r].written
      /\ audio'[r].accepted = audio[r].accepted + 1
      /\ stream[r] = "open"
      /\ \A q \in Recordings : Told(q)' = Told(q)
      /\ UNCHANGED <<slot, lock, call, worker, commands, stream, enders, troubled, tray, posted,
                     main, js, minted>>
  BY <1>1, HandOffAdds, ToldStays DEF HandOff, host, capture, shell, page
<1>3. TypedAt(r) /\ StartHasNoWorker(r) /\ OpeningIsSound(r) /\ StopIsSound(r) /\ KeepsChunks(r)
      /\ WorkerIsOwned(r)
  BY <1>1, Typed DEF Sound, RecordingsAreSound, WorkersAreOwned
<1>4. \A q \in Recordings : q # r => SameAt(q)
  BY <1>2, <1>3 DEF SameAt, TypedAt, Others
<1>5. OpeningIsSound(r)'
  BY <1>2, <1>3 DEF OpeningIsSound, KeepsChunks
<1>6. StopIsSound(r)'
  BY <1>2, <1>3 DEF StopIsSound, KeepsChunks
<1>7. KeepsChunks(r)'
  <2>1. worker[r] = "capturing" /\ worker'[r] = "capturing" /\ stream'[r] = stream[r]
        /\ stream[r] # "closed"
    BY <1>2, <1>3 DEF KeepsChunks
  <2>2. audio[r].file \notin {"finished", "published", "gone"}
    BY <2>1, <1>3 DEF KeepsChunks
  <2>3. /\ audio[r].queued \in Nat /\ audio[r].written \in Nat /\ audio[r].accepted \in Nat
        /\ audio'[r].queued = audio[r].queued + 1 /\ audio'[r].written = audio[r].written
        /\ audio'[r].accepted = audio[r].accepted + 1
    BY <1>2, <1>3 DEF TypedAt
  <2>4. audio[r].written + audio[r].queued = audio[r].accepted
            => audio'[r].written + audio'[r].queued = audio'[r].accepted
    BY <2>3
  <2> QED BY <1>2, <1>3, <2>4 DEF KeepsChunks
<1>8. StartHasNoWorker(r)'
  BY <1>2, <1>3 DEF StartHasNoWorker
<1>9. RecordingsAreSound'
  BY <1>1, <1>4, <1>5, <1>6, <1>7, <1>8, Same DEF Sound, RecordingsAreSound
<1>10. SlotIsClaimable'
  BY <1>1, <1>2, <1>3 DEF Sound, TypedAt, SlotIsClaimable, Others, OpeningIsSound, WorkerIsOwned
<1>11. (LockIsAccounted /\ OneWorker /\ WorkersAreOwned /\ SlotIsSound /\ EndedTruly
        /\ TroubleIsKnown /\ PagesNameTheMinted /\ TrayIsSound)'
  BY <1>1, <1>2 DEF Sound, LockIsAccounted, OneWorker, Live, WorkerIsOwned, Held, WorkersAreOwned,
       SlotIsSound, Told, EndedTruly, TroubleIsKnown, PagesNameTheMinted, TrayIsSound, Capturing
<1> QED BY <1>9, <1>10, <1>11 DEF Sound

\* StreamDies keeps the invariant.
LEMMA StreamDiesKeeps ==
  ASSUME HostIInv, NEW r \in Recordings, StreamDies(r)
  PROVE  Sound'
<1>1. TypeOK /\ Sound /\ minted \in Nat
  BY MintedIs DEF HostIInv, Sound
<1>2. /\ stream[r] = "open" /\ StreamsStay(r) /\ stream'[r] = "dead"
      /\ enders' = enders \cup {r} /\ troubled' = troubled \cup {r}
      /\ \A q \in Recordings : Told(q)' = Told(q)
      /\ UNCHANGED <<slot, lock, call, worker, commands, audio, tray, posted, main, js, minted>>
  BY <1>1, StreamDiesDoes, ToldStays DEF StreamDies, host, capture, shell, page
<1>3. TypedAt(r) /\ StartHasNoWorker(r) /\ OpeningIsSound(r) /\ StopIsSound(r) /\ KeepsChunks(r)
      /\ WorkerIsOwned(r)
  BY <1>1, Typed DEF Sound, RecordingsAreSound, WorkersAreOwned
<1>4. \A q \in Recordings : q # r => SameAt(q)
  BY <1>2, <1>3 DEF SameAt, TypedAt, StreamsStay
<1>5. KeepsChunks(r)'
  BY <1>2, <1>3 DEF KeepsChunks, WorkerIsOwned
<1>6. StartHasNoWorker(r)' /\ OpeningIsSound(r)' /\ StopIsSound(r)'
  BY <1>2, <1>3 DEF StartHasNoWorker, OpeningIsSound, StopIsSound
<1>7. RecordingsAreSound'
  BY <1>1, <1>4, <1>5, <1>6, Same DEF Sound, RecordingsAreSound
<1>8. EndedTruly'
  BY <1>1, <1>2, <1>3 DEF Sound, EndedTruly
<1>9. TroubleIsKnown'
  BY <1>1, <1>2, <1>3 DEF Sound, TroubleIsKnown
<1>10. (LockIsAccounted /\ OneWorker /\ WorkersAreOwned /\ SlotIsSound /\ SlotIsClaimable
        /\ PagesNameTheMinted /\ TrayIsSound)'
  BY <1>1, <1>2 DEF Sound, LockIsAccounted, OneWorker, Live, WorkerIsOwned, Held, WorkersAreOwned,
       SlotIsSound, Told, SlotIsClaimable, PagesNameTheMinted, TrayIsSound, Capturing
<1> QED BY <1>7, <1>8, <1>9, <1>10 DEF Sound

\* EndCapture keeps the invariant.
LEMMA EndCaptureKeeps ==
  ASSUME HostIInv, NEW r \in Recordings, EndCapture(r)
  PROVE  Sound'
<1>1. TypeOK /\ Sound /\ minted \in Nat
  BY MintedIs DEF HostIInv, Sound
<1>2. /\ r \in enders /\ enders' = enders \ {r} /\ lock = None /\ CommandsStay(r)
      /\ \/ /\ slot # None /\ slot.id = r /\ slot' # None /\ slot'.id = r
            /\ Told(r)' = Told(r) \cup {"end"} /\ posted' = TRUE
         \/ /\ slot' = slot /\ posted' = posted
            /\ \A q \in Recordings : Told(q)' = Told(q)
      /\ UNCHANGED <<lock, call, worker, stream, audio, troubled, tray, main, js, minted>>
  BY <1>1, EndCaptureDoes DEF EndCapture, host, capture, shell, page
<1>3. TypedAt(r) /\ StartHasNoWorker(r) /\ OpeningIsSound(r) /\ StopIsSound(r) /\ KeepsChunks(r)
      /\ WorkerIsOwned(r)
  BY <1>1, Typed DEF Sound, RecordingsAreSound, WorkersAreOwned
<1>4. \A q \in Recordings : q # r => SameAt(q)
  BY <1>2, <1>3 DEF SameAt, TypedAt, CommandsStay
<1>5. OpeningIsSound(r)'
  BY <1>1, <1>2, <1>3 DEF Sound, OpeningIsSound, KeepsChunks, Held, SlotIsSound, SlotIsClaimable,
       LockIsAccounted
<1>6. StopIsSound(r)'
  BY <1>1, <1>2, <1>3 DEF StopIsSound, KeepsChunks
<1>7. StartHasNoWorker(r)' /\ KeepsChunks(r)'
  BY <1>2, <1>3 DEF StartHasNoWorker, KeepsChunks
<1>8. RecordingsAreSound'
  BY <1>1, <1>4, <1>5, <1>6, <1>7, Same DEF Sound, RecordingsAreSound
<1>9. LockIsAccounted'
  BY <1>1, <1>2 DEF Sound, LockIsAccounted
<1>10. WorkersAreOwned'
  BY <1>1, <1>2 DEF Sound, WorkersAreOwned, WorkerIsOwned, Live, Held, LockIsAccounted
<1>11. SlotIsSound'
  BY <1>1, <1>2, <1>3 DEF Sound, TypedAt, SlotIsSound, OpeningIsSound
<1>12. SlotIsClaimable'
  BY <1>1, <1>2 DEF Sound, SlotIsClaimable
<1>13. EndedTruly'
  BY <1>1, <1>2 DEF Sound, EndedTruly, TroubleIsKnown
<1>14. TroubleIsKnown'
  BY <1>1, <1>2, <1>3 DEF Sound, TroubleIsKnown
<1>15. TrayIsSound'
  BY <1>1, <1>2 DEF Sound, TrayIsSound, Capturing, CommandsStay
<1>16. (OneWorker /\ PagesNameTheMinted)'
  BY <1>1, <1>2 DEF Sound, OneWorker, Live, WorkerIsOwned, Held, PagesNameTheMinted
<1> QED BY <1>8, <1>9, <1>10, <1>11, <1>12, <1>13, <1>14, <1>15, <1>16 DEF Sound

\* Refresh keeps the invariant.
LEMMA RefreshKeeps ==
  ASSUME HostIInv, Refresh
  PROVE  Sound'
<1>1. TypeOK /\ Sound /\ minted \in Nat
  BY MintedIs DEF HostIInv, Sound
<1>2. /\ (tray' = Capturing) /\ posted' = FALSE /\ lock = None /\ main = None
      /\ \A q \in Recordings : Told(q)' = Told(q)
      /\ UNCHANGED <<slot, lock, call, worker, commands, stream, audio, enders, troubled, main,
                     js, minted>>
  BY ToldStays DEF Refresh, host, capture, shell, page
<1>3. TrayIsSound'
  BY <1>1, <1>2 DEF TrayIsSound, Capturing
<1>4. RecordingsAreSound'
  BY <1>1, <1>2, Same DEF Sound, RecordingsAreSound, SameAt
<1>5. (LockIsAccounted /\ OneWorker /\ WorkersAreOwned /\ SlotIsSound /\ SlotIsClaimable
       /\ EndedTruly /\ TroubleIsKnown /\ PagesNameTheMinted)'
  BY <1>1, <1>2 DEF Sound, LockIsAccounted, OneWorker, Live, WorkerIsOwned, Held, WorkersAreOwned,
       SlotIsSound, Told, SlotIsClaimable, EndedTruly, TroubleIsKnown, PagesNameTheMinted
<1> QED BY <1>3, <1>4, <1>5 DEF Sound

\* CancelOwned keeps the invariant.
LEMMA CancelOwnedKeeps ==
  ASSUME HostIInv, CancelOwned
  PROVE  Sound'
<1>1. TypeOK /\ Sound /\ minted \in Nat
  BY MintedIs DEF HostIInv, Sound
<1>2. /\ main # None /\ lock = None
      /\ \/ /\ slot # None /\ slot' = None /\ lock' = MainThread
            /\ main' = main /\ posted' = posted
            /\ \E r \in Recordings :
                  slot.id = r /\ CommandsStay(r) /\ Told(r)' = Told(r) \cup {"cancel"}
         \/ /\ slot' = slot /\ lock' = lock /\ \A q \in Recordings : Told(q)' = Told(q)
            /\ main' = None /\ posted' = TRUE
      /\ UNCHANGED <<call, worker, stream, audio, enders, troubled, tray, js, minted>>
  BY <1>1, CancelOwnedDoes DEF CancelOwned, host, capture, shell, page
<1>3. RecordingsAreSound'
  <2>1. CASE \A q \in Recordings : Told(q)' = Told(q)
    BY <1>1, <1>2, <2>1, Same DEF Sound, RecordingsAreSound, SameAt
  <2>2. ASSUME NEW r \in Recordings, slot # None, slot.id = r, CommandsStay(r)
        PROVE  RecordingsAreSound'
    <3>1. StartHasNoWorker(r) /\ OpeningIsSound(r) /\ StopIsSound(r) /\ KeepsChunks(r)
      BY <1>1 DEF Sound, RecordingsAreSound
    <3>2. worker[r] \in {"capturing", "waiting"} /\ call[r].at \notin {"opening", "joining"}
      BY <1>1, <2>2 DEF Sound, SlotIsClaimable, LockIsAccounted
    <3>3. call[r].at # "publishing"
      BY <3>1, <3>2 DEF StopIsSound
    <3>4. StartHasNoWorker(r)' /\ KeepsChunks(r)'
      BY <1>2, <3>1 DEF StartHasNoWorker, KeepsChunks
    <3>5. OpeningIsSound(r)' /\ StopIsSound(r)'
      BY <1>2, <3>2, <3>3 DEF OpeningIsSound, StopIsSound
    <3>6. \A q \in Recordings : q # r => SameAt(q)
      BY <1>1, <1>2, <2>2 DEF SameAt, CommandsStay
    <3> QED BY <1>1, <3>4, <3>5, <3>6, Same DEF Sound, RecordingsAreSound
  <2> QED BY <1>2, <2>1, <2>2
<1>4. LockIsAccounted'
  <2>1. \A r \in Recordings : call[r].at \notin {"opening", "joining"}
    BY <1>1, <1>2 DEF Sound, LockIsAccounted
  <2>2. MainThread \notin Recordings /\ None \notin Recordings /\ MainThread # None
    BY DEF Recordings, MainThread
  <2> QED BY <1>2, <2>1 DEF LockIsAccounted
<1>5. WorkersAreOwned'
  BY <1>1, <1>2 DEF Sound, TypedAt, WorkersAreOwned, WorkerIsOwned, Live, Held, CommandsStay
<1>6. SlotIsSound'
  <2>1. CASE slot' = None
    BY <2>1 DEF SlotIsSound
  <2>2. CASE slot' # None
    <3>1. slot' = slot /\ slot.id \in Recordings /\ \A q \in Recordings : Told(q)' = Told(q)
      BY <1>1, <1>2, <2>2, SlotFields DEF TypeOK
    <3> QED BY <1>1, <1>2, <3>1 DEF Sound, SlotIsSound
  <2> QED BY <2>1, <2>2
<1>7. SlotIsClaimable'
  BY <1>1, <1>2 DEF Sound, SlotIsClaimable, CommandsStay
<1>8. EndedTruly'
  BY <1>1, <1>2 DEF Sound, TypedAt, EndedTruly
<1>9. TrayIsSound'
  BY <1>1, <1>2 DEF TrayIsSound, CommandsStay
<1>10. (OneWorker /\ TroubleIsKnown /\ PagesNameTheMinted)'
  BY <1>1, <1>2 DEF Sound, OneWorker, Live, WorkerIsOwned, Held, TroubleIsKnown,
       PagesNameTheMinted
<1> QED BY <1>3, <1>4, <1>5, <1>6, <1>7, <1>8, <1>9, <1>10 DEF Sound

\* CancelJoined keeps the invariant.
LEMMA CancelJoinedKeeps ==
  ASSUME HostIInv, CancelJoined
  PROVE  Sound'
<1>1. TypeOK /\ Sound /\ minted \in Nat
  BY MintedIs DEF HostIInv, Sound
<1>2. /\ lock = MainThread /\ lock' = None /\ main' = None /\ posted' = TRUE
      /\ \A r \in Recordings : worker[r] \in {"none", "done"}
      /\ \A q \in Recordings : Told(q)' = Told(q)
      /\ UNCHANGED <<slot, call, worker, commands, stream, audio, enders, troubled, tray, js,
                     minted>>
  BY ToldStays DEF CancelJoined, host, capture, shell, page
<1>3. LockIsAccounted'
  BY <1>1, <1>2 DEF Sound, TypedAt, LockIsAccounted
<1>4. WorkersAreOwned'
  BY <1>2 DEF WorkersAreOwned, WorkerIsOwned, Live
<1>5. TrayIsSound'
  BY <1>1, <1>2 DEF TrayIsSound
<1>6. RecordingsAreSound'
  BY <1>1, <1>2, Same DEF Sound, RecordingsAreSound, SameAt
<1>7. (OneWorker /\ SlotIsSound /\ SlotIsClaimable /\ EndedTruly /\ TroubleIsKnown
       /\ PagesNameTheMinted)'
  BY <1>1, <1>2 DEF Sound, OneWorker, Live, WorkerIsOwned, Held, SlotIsSound, Told,
       SlotIsClaimable, EndedTruly, TroubleIsKnown, PagesNameTheMinted
<1> QED BY <1>3, <1>4, <1>5, <1>6, <1>7 DEF Sound

\* Listen keeps the invariant.
LEMMA ListenKeeps ==
  ASSUME HostIInv, NEW w \in Windows, Listen(w)
  PROVE  Sound'
<1>1. TypeOK /\ Sound /\ minted \in Nat
  BY MintedIs DEF HostIInv, Sound
<1>2. /\ \A v \in Windows : js'[v].holds = js[v].holds
      /\ \A q \in Recordings : Told(q)' = Told(q)
      /\ UNCHANGED <<slot, lock, call, worker, commands, stream, audio, enders, troubled, tray,
                     posted, main, minted>>
  BY <1>1, HearingDoes, ToldStays DEF Listen, host, capture, shell, page
<1>3. PagesNameTheMinted'
  BY <1>1, <1>2 DEF Sound, TypedAt, PagesNameTheMinted
<1>4. RecordingsAreSound'
  BY <1>1, <1>2, Same DEF Sound, RecordingsAreSound, SameAt
<1>5. (LockIsAccounted /\ OneWorker /\ WorkersAreOwned /\ SlotIsSound /\ SlotIsClaimable
       /\ EndedTruly /\ TroubleIsKnown /\ TrayIsSound)'
  BY <1>1, <1>2 DEF Sound, LockIsAccounted, OneWorker, Live, WorkerIsOwned, Held, WorkersAreOwned,
       SlotIsSound, Told, SlotIsClaimable, EndedTruly, TroubleIsKnown, TrayIsSound, Capturing
<1> QED BY <1>3, <1>4, <1>5 DEF Sound

\* Reconcile keeps the invariant.
LEMMA ReconcileKeeps ==
  ASSUME HostIInv, NEW w \in Windows, Reconcile(w)
  PROVE  Sound'
<1>1. TypeOK /\ Sound /\ minted \in Nat
  BY MintedIs DEF HostIInv, Sound
<1>2. /\ \A v \in Windows : js'[v].holds = js[v].holds
      /\ \A q \in Recordings : Told(q)' = Told(q)
      /\ UNCHANGED <<slot, lock, call, worker, commands, stream, audio, enders, troubled, tray,
                     posted, main, minted>>
  BY <1>1, HearingDoes, ToldStays DEF Reconcile, host, capture, shell, page
<1>3. PagesNameTheMinted'
  BY <1>1, <1>2 DEF Sound, TypedAt, PagesNameTheMinted
<1>4. RecordingsAreSound'
  BY <1>1, <1>2, Same DEF Sound, RecordingsAreSound, SameAt
<1>5. (LockIsAccounted /\ OneWorker /\ WorkersAreOwned /\ SlotIsSound /\ SlotIsClaimable
       /\ EndedTruly /\ TroubleIsKnown /\ TrayIsSound)'
  BY <1>1, <1>2 DEF Sound, LockIsAccounted, OneWorker, Live, WorkerIsOwned, Held, WorkersAreOwned,
       SlotIsSound, Told, SlotIsClaimable, EndedTruly, TroubleIsKnown, TrayIsSound, Capturing
<1> QED BY <1>3, <1>4, <1>5 DEF Sound

\* Arrive keeps the invariant.
LEMMA ArriveKeeps ==
  ASSUME HostIInv, NEW w \in Windows, NEW r \in Recordings, Arrive(w, r)
  PROVE  Sound'
<1>1. TypeOK /\ Sound /\ minted \in Nat
  BY MintedIs DEF HostIInv, Sound
<1>2. /\ \A v \in Windows : js'[v].holds = js[v].holds
      /\ \A q \in Recordings : Told(q)' = Told(q)
      /\ UNCHANGED <<slot, lock, call, worker, commands, stream, audio, enders, troubled, tray,
                     posted, main, minted>>
  BY ToldStays DEF Arrive, host, capture, shell, page
<1>3. PagesNameTheMinted'
  BY <1>1, <1>2 DEF Sound, TypedAt, PagesNameTheMinted
<1>4. RecordingsAreSound'
  BY <1>1, <1>2, Same DEF Sound, RecordingsAreSound, SameAt
<1>5. (LockIsAccounted /\ OneWorker /\ WorkersAreOwned /\ SlotIsSound /\ SlotIsClaimable
       /\ EndedTruly /\ TroubleIsKnown /\ TrayIsSound)'
  BY <1>1, <1>2 DEF Sound, LockIsAccounted, OneWorker, Live, WorkerIsOwned, Held, WorkersAreOwned,
       SlotIsSound, Told, SlotIsClaimable, EndedTruly, TroubleIsKnown, TrayIsSound, Capturing
<1> QED BY <1>3, <1>4, <1>5 DEF Sound

\* CallEnd keeps the invariant.
LEMMA CallEndKeeps ==
  ASSUME HostIInv, NEW w \in Windows, NEW kind \in {"stop", "cancel"}, CallEnd(w, kind)
  PROVE  Sound'
<1>1. TypeOK /\ Sound /\ minted \in Nat
  BY MintedIs DEF HostIInv, Sound
<1>2. PICK r \in Recordings :
      /\ r = js[w].holds /\ CallsStay(r) /\ call[r].at = "idle" /\ call[r] = Quiet
      /\ call'[r].at = "asking" /\ call'[r].kind = kind /\ call'[r] # Quiet
      /\ \A v \in Windows : js'[v].holds = js[v].holds \/ js'[v].holds = 0
      /\ \A q \in Recordings : Told(q)' = Told(q)
      /\ UNCHANGED <<slot, lock, worker, commands, stream, audio, enders, troubled, tray, posted,
                     main, minted>>
  BY <1>1, CallEndDoes, ToldStays DEF CallEnd, host, capture, shell, page
<1>3. TypedAt(r) /\ StartHasNoWorker(r) /\ OpeningIsSound(r) /\ StopIsSound(r) /\ KeepsChunks(r)
      /\ WorkerIsOwned(r)
  BY <1>1, Typed DEF Sound, RecordingsAreSound, WorkersAreOwned
<1>4. \A q \in Recordings : q # r => SameAt(q)
  BY <1>2, <1>3 DEF SameAt, TypedAt, CallsStay
<1>5. StartHasNoWorker(r)'
  BY <1>1, <1>2, <1>3 DEF Sound, StartHasNoWorker, KeepsChunks, LockIsAccounted,
       PagesNameTheMinted
<1>6. OpeningIsSound(r)'
  BY <1>2, <1>3 DEF OpeningIsSound, KeepsChunks, WorkerIsOwned
<1>7. StopIsSound(r)'
  BY <1>2 DEF StopIsSound, KeepsChunks, WorkerIsOwned
<1>8. KeepsChunks(r)'
  BY <1>2, <1>3 DEF KeepsChunks
<1>9. RecordingsAreSound'
  BY <1>1, <1>4, <1>5, <1>6, <1>7, <1>8, Same DEF Sound, RecordingsAreSound
<1>10. LockIsAccounted'
  BY <1>1, <1>2, <1>3 DEF Sound, LockIsAccounted, CallsStay, StopIsSound, WorkerIsOwned
<1>11. WorkersAreOwned'
  BY <1>1, <1>2, <1>3 DEF Sound, WorkersAreOwned, WorkerIsOwned, Live, Held, LockIsAccounted,
       OneWorker, CallsStay, OpeningIsSound
<1>12. PagesNameTheMinted'
  BY <1>1, <1>2, <1>3 DEF Sound, PagesNameTheMinted, WorkerIsOwned
<1>13. TrayIsSound'
  BY <1>1, <1>2 DEF Sound, TrayIsSound, Capturing, CallsStay
<1>14. (OneWorker /\ SlotIsSound /\ SlotIsClaimable /\ EndedTruly /\ TroubleIsKnown)'
  BY <1>1, <1>2 DEF Sound, OneWorker, Live, WorkerIsOwned, Held, SlotIsSound, Told,
       SlotIsClaimable, EndedTruly, TroubleIsKnown
<1> QED BY <1>9, <1>10, <1>11, <1>12, <1>13, <1>14 DEF Sound

\* Boot keeps the invariant.
LEMMA BootKeeps ==
  ASSUME HostIInv, NEW w \in Windows, Boot(w)
  PROVE  Sound'
<1>1. TypeOK /\ Sound /\ minted \in Nat
  BY MintedIs DEF HostIInv, Sound
<1>2. /\ \A v \in Windows : \/ js'[v].holds = js[v].holds \/ js'[v].holds = 0
                            \/ slot # None /\ js'[v].holds = slot.id
      /\ \A q \in Recordings : Told(q)' = Told(q)
      /\ UNCHANGED <<slot, lock, call, worker, commands, stream, audio, enders, troubled, tray,
                     posted, main, minted>>
  BY <1>1, BootDoes, ToldStays DEF Boot, host, capture, shell, page
<1>3. PagesNameTheMinted'
  BY <1>1, <1>2 DEF Sound, TypedAt, PagesNameTheMinted, SlotIsSound
<1>4. RecordingsAreSound'
  BY <1>1, <1>2, Same DEF Sound, RecordingsAreSound, SameAt
<1>5. (LockIsAccounted /\ OneWorker /\ WorkersAreOwned /\ SlotIsSound /\ SlotIsClaimable
       /\ EndedTruly /\ TroubleIsKnown /\ TrayIsSound)'
  BY <1>1, <1>2 DEF Sound, LockIsAccounted, OneWorker, Live, WorkerIsOwned, Held, WorkersAreOwned,
       SlotIsSound, Told, SlotIsClaimable, EndedTruly, TroubleIsKnown, TrayIsSound, Capturing
<1> QED BY <1>3, <1>4, <1>5 DEF Sound

\* Reload keeps the invariant.
LEMMA ReloadKeeps ==
  ASSUME HostIInv, NEW w \in Windows, Reload(w)
  PROVE  Sound'
<1>1. TypeOK /\ Sound /\ minted \in Nat
  BY MintedIs DEF HostIInv, Sound
<1>2. /\ \A q \in Recordings : /\ call'[q].at = call[q].at /\ call'[q].kind = call[q].kind
                               /\ call[q] = Quiet => call'[q] = Quiet
      /\ \A v \in Windows : js'[v].holds = js[v].holds \/ js'[v].holds = 0
      /\ PageGone(w)
      /\ \A q \in Recordings : Told(q)' = Told(q)
      /\ UNCHANGED <<slot, lock, worker, commands, stream, audio, enders, troubled, tray, posted,
                     main, minted>>
  BY <1>1, PageGoneDoes, ToldStays DEF Reload, host, capture, shell, page
<1>3. RecordingsAreSound'
  BY <1>1, <1>2, Same DEF Sound, RecordingsAreSound, SameAt
<1>4. LockIsAccounted'
  BY <1>1, <1>2 DEF Sound, TypedAt, LockIsAccounted, CallsStay
<1>5. WorkersAreOwned'
  BY <1>1, <1>2 DEF Sound, TypedAt, WorkersAreOwned, WorkerIsOwned, Live, Held, CallsStay
<1>6. PagesNameTheMinted'
  BY <1>1, <1>2 DEF Sound, TypedAt, PagesNameTheMinted
<1>7. TrayIsSound'
  BY <1>1, <1>2 DEF Sound, TypedAt, TrayIsSound, Capturing, CallsStay
<1>8. (OneWorker /\ SlotIsSound /\ SlotIsClaimable /\ EndedTruly /\ TroubleIsKnown)'
  BY <1>1, <1>2 DEF Sound, OneWorker, Live, WorkerIsOwned, Held, SlotIsSound, Told,
       SlotIsClaimable, EndedTruly, TroubleIsKnown
<1> QED BY <1>3, <1>4, <1>5, <1>6, <1>7, <1>8 DEF Sound

\* Destroyed keeps the invariant.
LEMMA DestroyedKeeps ==
  ASSUME HostIInv, NEW w \in Windows, Destroyed(w)
  PROVE  Sound'
<1>1. TypeOK /\ Sound /\ minted \in Nat
  BY MintedIs DEF HostIInv, Sound
<1>2. /\ \A q \in Recordings : /\ call'[q].at = call[q].at /\ call'[q].kind = call[q].kind
                               /\ call[q] = Quiet => call'[q] = Quiet
      /\ \A v \in Windows : js'[v].holds = js[v].holds \/ js'[v].holds = 0
      /\ PageGone(w) /\ main' = w /\ main = None
      /\ \A q \in Recordings : Told(q)' = Told(q)
      /\ UNCHANGED <<slot, lock, worker, commands, stream, audio, enders, troubled, tray, posted,
                     minted>>
  BY <1>1, PageGoneDoes, ToldStays DEF Destroyed, host, capture, shell, page
<1>3. RecordingsAreSound'
  BY <1>1, <1>2, Same DEF Sound, RecordingsAreSound, SameAt
<1>4. LockIsAccounted'
  BY <1>1, <1>2 DEF Sound, TypedAt, LockIsAccounted, CallsStay
<1>5. WorkersAreOwned'
  BY <1>1, <1>2 DEF Sound, TypedAt, WorkersAreOwned, WorkerIsOwned, Live, Held, CallsStay
<1>6. PagesNameTheMinted'
  BY <1>1, <1>2 DEF Sound, TypedAt, PagesNameTheMinted
<1>7. TrayIsSound'
  BY <1>1, <1>2 DEF TrayIsSound, CallsStay
<1>8. (OneWorker /\ SlotIsSound /\ SlotIsClaimable /\ EndedTruly /\ TroubleIsKnown)'
  BY <1>1, <1>2 DEF Sound, OneWorker, Live, WorkerIsOwned, Held, SlotIsSound, Told,
       SlotIsClaimable, EndedTruly, TroubleIsKnown
<1> QED BY <1>3, <1>4, <1>5, <1>6, <1>7, <1>8 DEF Sound

------------------------------------------------------------------------
(* What is guaranteed. *)

\* At the start there is neither a worker nor a recording.
LEMMA InvInit == Init => HostIInv
<1> SUFFICES ASSUME Init PROVE HostIInv
  OBVIOUS
<1>1. Quiet \in Call /\ Fresh \in Knowledge /\ Quiet.at = "idle"
  BY CallFields, KnowledgeFields
<1>2. [queued |-> 0, accepted |-> 0, written |-> 0, file |-> "none"] \in Audio
  BY DEF Audio
<1>3. TypeOK
  <2>1. /\ call \in [Recordings -> Call] /\ js \in [Windows -> Knowledge]
        /\ audio \in [Recordings -> Audio]
    BY <1>1, <1>2 DEF Init
  <2>2. commands \in [Recordings -> Seq({"stop", "cancel", "end"})]
    BY DEF Init
  <2>3. /\ slot = None /\ lock = None /\ main = None /\ alive = Windows /\ minted = 0
        /\ reloads = 0 /\ enders = {} /\ troubled = {} /\ events = {}
        /\ tray = FALSE /\ posted = FALSE
        /\ worker \in [Recordings -> {"none", "opening", "capturing", "waiting", "done"}]
        /\ stream \in [Recordings -> {"closed", "open", "dead"}]
    BY DEF Init
  <2>4. minted \in 0 .. MaxRecordings /\ reloads \in Nat
    BY <2>3
  <2>5. /\ lock \in Recordings \cup {None, MainThread} /\ main \in Windows \cup {None}
        /\ events \subseteq Windows \X Recordings /\ alive \subseteq Windows
        /\ enders \subseteq Recordings /\ troubled \subseteq Recordings
    BY <2>3
  <2> QED BY <2>1, <2>2, <2>3, <2>4 DEF TypeOK
<1>4. \A r \in Recordings : Told(r) = {}
  BY DEF Init, Told
<1>5. RecordingsAreSound
  BY <1>1, <1>4 DEF Init, RecordingsAreSound, StartHasNoWorker, OpeningIsSound, StopIsSound,
       KeepsChunks
<1>6. LockIsAccounted /\ OneWorker /\ WorkersAreOwned /\ SlotIsSound
  BY <1>1 DEF Init, LockIsAccounted, OneWorker, WorkersAreOwned, WorkerIsOwned, Live, SlotIsSound
<1>7. SlotIsClaimable /\ EndedTruly /\ TroubleIsKnown /\ TrayIsSound
  BY DEF Init, SlotIsClaimable, EndedTruly, TroubleIsKnown, TrayIsSound, Capturing
<1>8. PagesNameTheMinted
  BY DEF Init, PagesNameTheMinted, Fresh
<1> QED BY <1>3, <1>5, <1>6, <1>7, <1>8 DEF HostIInv

\* Every step of a command, a worker, the main thread, a page or a device keeps the
\* invariant.
LEMMA SoundStep == ASSUME HostIInv, Next PROVE Sound'
<1>1. ASSUME NEW w \in Windows, CallStart(w) PROVE Sound'
  BY <1>1, CallStartKeeps
<1>2. ASSUME NEW r \in Recordings, StartBusy(r) PROVE Sound'
  BY <1>2, StartBusyKeeps
<1>3. ASSUME NEW r \in Recordings, StartFails(r) PROVE Sound'
  BY <1>3, StartFailsKeeps
<1>4. ASSUME NEW r \in Recordings, StartOpens(r) PROVE Sound'
  BY <1>4, StartOpensKeeps
<1>5. ASSUME NEW r \in Recordings, StartReturns(r) PROVE Sound'
  BY <1>5, StartReturnsKeeps
<1>6. ASSUME NEW r \in Recordings, NEW kind \in {"stop", "cancel"}, EndRefused(r, kind) PROVE Sound'
  BY <1>6, EndRefusedKeeps
<1>7. ASSUME NEW r \in Recordings, NEW kind \in {"stop", "cancel"}, EndTakes(r, kind) PROVE Sound'
  BY <1>7, EndTakesKeeps
<1>8. ASSUME NEW r \in Recordings, EndReturns(r) PROVE Sound'
  BY <1>8, EndReturnsKeeps
<1>9. ASSUME NEW r \in Recordings, Publish(r) PROVE Sound'
  BY <1>9, PublishKeeps
<1>10. ASSUME NEW r \in Recordings, WorkerOpens(r) PROVE Sound'
  BY <1>10, WorkerOpensKeeps
<1>11. ASSUME NEW r \in Recordings, WorkerCannotOpen(r) PROVE Sound'
  BY <1>11, WorkerCannotOpenKeeps
<1>12. ASSUME NEW r \in Recordings, Write(r) PROVE Sound'
  BY <1>12, WriteKeeps
<1>13. ASSUME NEW r \in Recordings, WriteFails(r) PROVE Sound'
  BY <1>13, WriteFailsKeeps
<1>14. ASSUME NEW r \in Recordings, Obey(r) PROVE Sound'
  BY <1>14, ObeyKeeps
<1>15. ASSUME NEW r \in Recordings, AwaitResolution(r) PROVE Sound'
  BY <1>15, AwaitResolutionKeeps
<1>16. ASSUME NEW r \in Recordings, HandOff(r) PROVE Sound'
  BY <1>16, HandOffKeeps
<1>17. ASSUME NEW r \in Recordings, StreamDies(r) PROVE Sound'
  BY <1>17, StreamDiesKeeps
<1>18. ASSUME NEW r \in Recordings, EndCapture(r) PROVE Sound'
  BY <1>18, EndCaptureKeeps
<1>19. CASE Refresh
  BY <1>19, RefreshKeeps
<1>20. CASE CancelOwned
  BY <1>20, CancelOwnedKeeps
<1>21. CASE CancelJoined
  BY <1>21, CancelJoinedKeeps
<1>22. ASSUME NEW w \in Windows, Listen(w) PROVE Sound'
  BY <1>22, ListenKeeps
<1>23. ASSUME NEW w \in Windows, Reconcile(w) PROVE Sound'
  BY <1>23, ReconcileKeeps
<1>24. ASSUME NEW w \in Windows, NEW r \in Recordings, Arrive(w, r) PROVE Sound'
  BY <1>24, ArriveKeeps
<1>25. ASSUME NEW w \in Windows, NEW kind \in {"stop", "cancel"}, CallEnd(w, kind) PROVE Sound'
  BY <1>25, CallEndKeeps
<1>26. ASSUME NEW w \in Windows, Boot(w) PROVE Sound'
  BY <1>26, BootKeeps
<1>27. ASSUME NEW w \in Windows, Reload(w) PROVE Sound'
  BY <1>27, ReloadKeeps
<1>28. ASSUME NEW w \in Windows, Destroyed(w) PROVE Sound'
  BY <1>28, DestroyedKeeps
<1> QED
  BY <1>1, <1>2, <1>3, <1>4, <1>5, <1>6, <1>7, <1>8, <1>9, <1>10, <1>11, <1>12, <1>13, <1>14, <1>15, <1>16, <1>17, <1>18, <1>19, <1>20, <1>21, <1>22, <1>23, <1>24, <1>25, <1>26, <1>27, <1>28
       DEF Next, Command, Worker, Main, Page, Claim

\* A step that changes nothing keeps the invariant.
LEMMA Stuttering == ASSUME HostIInv, UNCHANGED vars PROVE HostIInv'
<1> USE DEF vars, host, capture, shell, page
<1>1. TypeOK /\ Sound
  BY DEF HostIInv, Sound
<1>2. TypeOK'
  BY <1>1 DEF TypeOK
<1>3. \A q \in Recordings : SameAt(q)
  BY <1>1, MintedIs, ToldStays DEF SameAt
<1>4. RecordingsAreSound'
  BY <1>1, <1>3, Same DEF Sound, RecordingsAreSound
<1>5. (LockIsAccounted /\ OneWorker /\ WorkersAreOwned)'
  BY <1>1 DEF Sound, LockIsAccounted, OneWorker, WorkersAreOwned, WorkerIsOwned, Live, Held
<1>6. (SlotIsSound /\ SlotIsClaimable /\ EndedTruly /\ TroubleIsKnown)'
  BY <1>1 DEF Sound, SlotIsSound, Told, SlotIsClaimable, EndedTruly, TroubleIsKnown
<1>7. (PagesNameTheMinted /\ TrayIsSound)'
  BY <1>1 DEF Sound, PagesNameTheMinted, TrayIsSound, Capturing
<1> QED BY <1>2, <1>4, <1>5, <1>6, <1>7 DEF HostIInv

\* The inductive invariant (HostRecorder, "Why they hold") holds of every behaviour:
\* of the recorder's mutex, its workers, their queues and files, and the slot.
THEOREM Invariance == Spec => []HostIInv
<1>1. Init => HostIInv
  BY InvInit
<1>2. HostIInv /\ [Next]_vars => HostIInv'
  <2>1. ASSUME HostIInv, Next PROVE HostIInv'
    <3>1. TypeOK'
      BY <2>1, TypeStep DEF HostIInv
    <3>2. Sound'
      BY <2>1, SoundStep
    <3> QED BY <3>1, <3>2 DEF HostIInv, Sound
  <2>2. ASSUME HostIInv, UNCHANGED vars PROVE HostIInv'
    BY <2>2, Stuttering
  <2> QED BY <2>1, <2>2
<1> QED BY <1>1, <1>2, PTL DEF Spec

\* One worker at most is alive, and only a worker that captures has a microphone.
LEMMA MicrophoneIsTheWorkers ==
  ASSUME HostIInv
  PROVE  OneMicrophone
<1> DEFINE Open == {r \in Recordings : stream[r] # "closed"}
<1>1. \A q, r \in Open : q = r
  BY DEF HostIInv, RecordingsAreSound, KeepsChunks, OneWorker, Live
<1> HIDE DEF Open
<1>2. CASE Open = {}
  <2>1. Cardinality(Open) = 0
    BY <1>2, FS_EmptySet
  <2> QED BY <2>1 DEF OneMicrophone, Open
<1>3. CASE Open # {}
  <2>1. PICK r \in Open : TRUE
    BY <1>3
  <2>2. Open = {r}
    BY <1>1, <2>1
  <2>3. Cardinality(Open) = 1
    BY <2>2, FS_Singleton
  <2> QED BY <2>3 DEF OneMicrophone, Open
<1> QED BY <1>2, <1>3

\* recorder.rs:640-646 two microphones are never open at once: the mutex is kept until
\* the worker of the last recording is done, so a start finds none alive.
THEOREM NeverTwoMicrophones == Spec => []OneMicrophone
<1>1. HostIInv => OneMicrophone
  BY MicrophoneIsTheWorkers
<1> QED BY <1>1, Invariance, PTL

\* recorder.rs:1035-1038 an occupied slot can be claimed: a stop finds the worker and
\* the file of the recording, also after the device has died and after a reload.
THEOREM OccupiedIsClaimable == Spec => []SlotIsClaimable
<1>1. HostIInv => SlotIsClaimable
  BY DEF HostIInv
<1> QED BY <1>1, Invariance, PTL

\* recorder.rs:607-611 an ending is marked on the recording that failed, never on one
\* that was started after it.
THEOREM EndingsAreTheirOwn == Spec => []EndedTruly
<1>1. HostIInv => EndedTruly
  BY DEF HostIInv
<1> QED BY <1>1, Invariance, PTL

\* recorder.rs:961-979 nothing between the microphone and the file is lost when a
\* recording that did not fail is stopped, however full its queue is at the stop.
THEOREM NoTailIsLost == Spec => []TailIsKept
<1>1. HostIInv => TailIsKept
  <2> SUFFICES ASSUME HostIInv, NEW r \in Recordings \ troubled,
                      audio[r].file \in {"finished", "published"}
               PROVE  audio[r].written = audio[r].accepted
    BY DEF TailIsKept
  <2>1. KeepsChunks(r) /\ TypedAt(r)
    BY Typed DEF HostIInv, RecordingsAreSound
  <2>2. audio[r].queued = 0 /\ audio[r].written + audio[r].queued = audio[r].accepted
    BY <2>1 DEF KeepsChunks
  <2>3. audio[r].written \in Nat
    BY <2>1 DEF TypedAt
  <2> QED BY <2>2, <2>3
<1> QED BY <1>1, Invariance, PTL

\* commands.rs:59-63 whatever start, stop, ending or destruction came last, the tray shows it
\* once its refresh has run: a step that changes it unseen by the tray is one that posts.
THEOREM TrayTellsTheTruth == Spec => []TrayIsHonest
<1>1. HostIInv => TrayIsHonest
  BY DEF HostIInv, TrayIsSound, TrayIsHonest
<1> QED BY <1>1, Invariance, PTL
===========================================================================
