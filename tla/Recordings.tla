----------------------------- MODULE Recordings -----------------------------
(***************************************************************************)
(* The recording of one egress session: the part files its pipelines       *)
(* write, the remux into one recording.mp4 when the session is stopped     *)
(* (egress.service.ts, finalizeRecording), and the platform's download and *)
(* removal (recordings.service.ts, recordings.controller.ts), which may    *)
(* come at any moment.                                                     *)
(*                                                                         *)
(* Egress models the session itself; here its pipelines are what opens and *)
(* writes files.  A chunk of material stands for a byte.                   *)
(***************************************************************************)
EXTENDS Integers, FiniteSets

CONSTANTS
    Writers,    \* bound: ffmpeg processes at a time
    MaxParts,   \* bound: restarts of the pipeline
    MaxChunks   \* bound: chunks of material

ASSUME RecordingBoundsAreNat == MaxParts \in Nat /\ MaxChunks \in Nat

VARIABLES
    phase,      \* how far the session is, see Phases
    part,       \* session.recordingPart
    pending,    \* pipelines being built
    writers,    \* the ffmpeg processes: their part, and what their file is
    recorder,   \* session.process; from the stop on, the process it awaits
    dir,        \* the session's directory exists
    opened,     \* the parts that have a file
    material,   \* chunks in the part files: <<part, number>>
    listed,     \* parts being remuxed, and not removed yet
    mp4,        \* recording.mp4: [is, has]
    size,       \* recordingSizeBytes, Unknown for null
    removing,   \* a removal has deleted the files and not the metadata yet
    ready,      \* the webhook recording.ready
    chunks,     \* chunks recorded so far
    early,      \* history: those recorded before the session ended
    deleted,    \* history: somebody removed the recording
    entangled   \* history: two pipelines were built at the same time

files == <<dir, opened, material, mp4>>
pipelines == <<part, pending, writers, recorder>>
recordingPast == <<chunks, early, deleted, entangled>>
recordingVars == <<phase, pipelines, files, listed, size, removing, ready, recordingPast>>

Phases == {"running", "stopping", "listed", "remuxing", "remuxed", "sized", "stored",
           "over", "failed", "rejected"}
Nothing == "nothing"
Unknown == -1
Parts == 0 .. MaxParts
NoFile == [is |-> "absent", has |-> {}]
Idle == [part |-> 0, at |-> "free"]
OfPart(k) == {c \in material : c[1] = k}

-----------------------------------------------------------------------------
(* Pipelines.                                                              *)

\* Variant: every pipeline writes the same part.
SamePart == part

NextPart == part + 1

\* A retry or a change of membership: the process there is is told to stop,
\* which it does when it has written what it holds.
Again ==
    /\ pending' = pending + 1 /\ pending < 2
    /\ part < MaxParts /\ part' = NextPart
    /\ recorder' = Nothing
    /\ entangled' = (entangled \/ pending > 0)
    /\ UNCHANGED phase

\* failSession: the parts stay, and nothing is finalized.  A stop under way
\* goes on awaiting what it awaits.
Fail ==
    /\ phase' = IF phase = "running" THEN "failed" ELSE phase
    /\ recorder' = IF phase = "running" THEN Nothing ELSE recorder
    /\ UNCHANGED <<part, entangled>>

MembershipRestart ==
    /\ phase = "running" /\ Again
    /\ UNCHANGED <<writers, files, listed, size, removing, ready, chunks, early, deleted>>

\* composeEgressArgs reads the number of the part when the pipeline is spawned;
\* nobody awaits one that is spawned after the stop.
SpawnWriter(w) ==
    /\ pending > 0 /\ writers[w] = Idle
    /\ pending' = pending - 1
    /\ writers' = [writers EXCEPT ![w] = [part |-> part, at |-> "spawned"]]
    /\ recorder' = IF phase = "running" THEN w ELSE recorder
    /\ UNCHANGED <<phase, part, files, listed, size, removing, ready, recordingPast>>

BuildRejected ==
    /\ pending > 0
    /\ pending' = pending - 1
    /\ Fail \/ UNCHANGED <<phase, part, recorder, entangled>>
    /\ UNCHANGED <<writers, files, listed, size, removing, ready, chunks, early, deleted>>

\* The recording branch of the tee opens its file, which empties it.
OpenPart(w) ==
    /\ writers[w].at = "spawned" /\ dir
    /\ writers' = [writers EXCEPT ![w].at = "open"]
    /\ opened' = opened \cup {writers[w].part}
    /\ material' = material \ OfPart(writers[w].part)
    /\ UNCHANGED <<phase, part, pending, recorder, dir, mp4, listed, size, removing, ready, recordingPast>>

\* A chunk is written, to a file that may have been removed.
WriteChunk(w) ==
    LET c == <<writers[w].part, chunks + 1>> IN
    /\ writers[w].at \in {"open", "unlinked"} /\ chunks < MaxChunks
    /\ chunks' = chunks + 1
    /\ material' = IF writers[w].at = "open" THEN material \cup {c} ELSE material
    /\ early' = IF phase = "running" THEN early \cup {c} ELSE early
    /\ UNCHANGED <<phase, pipelines, dir, opened, mp4, listed, size, removing, ready, deleted, entangled>>

\* A process exits, for whatever reason.
WriterExits(w) ==
    /\ writers[w] # Idle
    /\ writers' = [writers EXCEPT ![w] = Idle]
    /\ IF phase = "running" THEN Again \/ (Fail /\ UNCHANGED pending)
       ELSE /\ recorder' = IF recorder = w THEN Nothing ELSE recorder
            /\ UNCHANGED <<phase, part, pending, entangled>>
    /\ UNCHANGED <<files, listed, size, removing, ready, chunks, early, deleted>>

-----------------------------------------------------------------------------
(* The end of the session: finalize and finalizeRecording.                 *)

StopRecording ==
    /\ phase = "running" /\ phase' = "stopping"
    /\ UNCHANGED <<pipelines, files, listed, size, removing, ready, recordingPast>>

\* The process that was stopped has exited: the parts that have a file.
ListParts ==
    /\ phase = "stopping" /\ recorder = Nothing
    /\ listed' = opened \cap 0 .. part
    /\ phase' = IF listed' = {} THEN "over" ELSE "listed"
    /\ UNCHANGED <<pipelines, files, size, removing, ready, recordingPast>>

\* The list is written, which needs the directory.
BeginRemux ==
    /\ phase = "listed"
    /\ phase' = IF dir THEN "remuxing" ELSE "rejected"
    /\ UNCHANGED <<pipelines, files, listed, size, removing, ready, recordingPast>>

RemuxOpens ==
    /\ phase = "remuxing" /\ dir /\ mp4.is = "absent"
    /\ mp4' = [is |-> "partial", has |-> {}]
    /\ UNCHANGED <<phase, pipelines, dir, opened, material, listed, size, removing, ready, recordingPast>>

\* Variant: a remux counts as finished however it exits.
AnyExit(ok) == TRUE

Finished(ok) == ok

\* The remux exits.  If it did its work, the file has what the parts had when
\* they were read; otherwise it is as it is, and the parts remain.
RemuxExits(ok) ==
    /\ phase = "remuxing"
    /\ IF ok /\ dir
       THEN /\ mp4.is = "partial"
            /\ \E S \in SUBSET material :
                  /\ \A c \in material : c[1] \in listed /\ c \in early => c \in S
                  /\ \A c \in S : c[1] \in listed
                  /\ mp4' = [is |-> "whole", has |-> S]
       ELSE UNCHANGED mp4
    /\ phase' = IF Finished(ok) THEN "remuxed" ELSE "over"
    /\ UNCHANGED <<pipelines, dir, opened, material, listed, size, removing, ready, recordingPast>>

\* Its size is asked for.
StatMp4 ==
    /\ phase = "remuxed"
    /\ phase' = IF mp4.is = "absent" THEN "rejected" ELSE "sized"
    /\ UNCHANGED <<pipelines, files, listed, size, removing, ready, recordingPast>>

\* It is stored, although the file may have been removed meanwhile.
StoreSize ==
    /\ phase = "sized" /\ phase' = "stored"
    /\ size' \in IF dir THEN {Cardinality(mp4.has)} ELSE 0 .. chunks
    /\ UNCHANGED <<pipelines, files, listed, removing, ready, recordingPast>>

\* The parts are removed one by one; whoever writes to one goes on.
RemovePart(k) ==
    /\ phase = "stored" /\ k \in listed
    /\ listed' = listed \ {k}
    /\ opened' = opened \ {k} /\ material' = material \ OfPart(k)
    /\ writers' = [w \in Writers |-> IF writers[w] = [part |-> k, at |-> "open"]
                                     THEN [writers[w] EXCEPT !.at = "unlinked"] ELSE writers[w]]
    /\ UNCHANGED <<phase, part, pending, recorder, dir, mp4, size, removing, ready, recordingPast>>

RecordingReady ==
    /\ phase = "stored" /\ listed = {}
    /\ phase' = "over" /\ ready' = TRUE
    /\ UNCHANGED <<pipelines, files, listed, size, removing, recordingPast>>

-----------------------------------------------------------------------------
(* The platform.                                                           *)

\* remove: the directory first, then the metadata.
RemoveFiles ==
    /\ ~deleted /\ deleted' = TRUE /\ removing' = TRUE
    /\ dir' = FALSE /\ opened' = {} /\ material' = {} /\ mp4' = NoFile
    /\ writers' = [w \in Writers |-> IF writers[w].at = "open"
                                     THEN [writers[w] EXCEPT !.at = "unlinked"] ELSE writers[w]]
    /\ UNCHANGED <<phase, part, pending, recorder, listed, size, ready, chunks, early, entangled>>

RemoveMetadata ==
    /\ removing /\ removing' = FALSE /\ size' = Unknown
    /\ UNCHANGED <<phase, pipelines, files, listed, ready, recordingPast>>

\* The server goes down and comes up: onModuleInit fails the session.
ServerStops ==
    /\ phase \notin {"over", "failed", "rejected"}
    /\ phase' = "failed"
    /\ pending' = 0 /\ writers' = [w \in Writers |-> Idle] /\ recorder' = Nothing
    /\ removing' = FALSE
    /\ UNCHANGED <<part, files, listed, size, ready, recordingPast>>

\* download: the file that is chosen for part n.
Serves(n) ==
    IF mp4.is # "absent" THEN mp4
    ELSE IF n \in 0 .. Cardinality(opened) - 1 /\ n \in opened
         THEN [is |-> "raw", has |-> OfPart(n)]
         ELSE NoFile

Absent == -1
Headers == [first : Absent .. MaxChunks + 1, last : Absent .. MaxChunks + 1]

\* parseRange: `bytes=first-last', where either may be absent.
ParseRange(h, n) ==
    LET start == IF h.first = Absent THEN IF h.last > n THEN 0 ELSE n - h.last ELSE h.first
        end == IF h.first = Absent \/ h.last = Absent \/ h.last >= n THEN n - 1 ELSE h.last IN
    IF \/ h.first = Absent /\ h.last \in {Absent, 0}
       \/ n = 0 \/ start >= n \/ end < start
    THEN "unsatisfiable" ELSE [start |-> start, end |-> end]

RecordingInit ==
    /\ phase = "running" /\ part = 0 /\ pending = 1
    /\ writers = [w \in Writers |-> Idle] /\ recorder = Nothing
    /\ dir = TRUE /\ opened = {} /\ material = {} /\ mp4 = NoFile /\ listed = {}
    /\ size = Unknown /\ removing = FALSE /\ ready = FALSE
    /\ chunks = 0 /\ early = {} /\ deleted = FALSE /\ entangled = FALSE

RecordingNext ==
    \/ MembershipRestart \/ BuildRejected
    \/ \E w \in Writers : SpawnWriter(w) \/ OpenPart(w) \/ WriteChunk(w) \/ WriterExits(w)
    \/ StopRecording \/ ListParts \/ BeginRemux \/ RemuxOpens
    \/ \E ok \in BOOLEAN : RemuxExits(ok)
    \/ StatMp4 \/ StoreSize \/ RecordingReady
    \/ \E k \in Parts : RemovePart(k)
    \/ RemoveFiles \/ RemoveMetadata \/ ServerStops

RecordingSpec == RecordingInit /\ [][RecordingNext]_recordingVars

-----------------------------------------------------------------------------
RecordingTypeOK ==
    /\ phase \in Phases /\ part \in Parts /\ pending \in 0 .. 2
    /\ writers \in [Writers -> [part : Parts, at : {"free", "spawned", "open", "unlinked"}]]
    /\ recorder \in Writers \cup {Nothing}
    /\ opened \cup listed \subseteq Parts /\ (~dir => opened = {} /\ mp4 = NoFile)
    /\ material \subseteq opened \X (1 .. MaxChunks) /\ mp4.is \in {"absent", "partial", "whole"}
    /\ size \in Unknown .. MaxChunks /\ {removing, ready, dir, deleted, entangled} \subseteq BOOLEAN

\* What was recorded before the session ended is kept, in a part or in the
\* finished file, whatever pipelines fail and restart, however the remux ends
\* and wherever the server stops ("no material is ever silently dropped",
\* egress.service.ts:572); unless pipelines were built at the same time or
\* somebody removed the recording.
NothingDropped ==
    deleted \/ entangled \/ \A c \in early : c \in material \/ (mp4.is = "whole" /\ c \in mp4.has)

\* A recording that was announced is served, whole, with the size announced,
\* and of every range exactly the bytes that it names.
ReadyIsServed ==
    ready /\ ~deleted =>
      /\ mp4.is = "whole" /\ size = Cardinality(mp4.has)
      /\ entangled \/ early \subseteq mp4.has
      /\ \A h \in Headers :
           LET asked == {b \in 0 .. size - 1 :
                           IF h.first = Absent THEN h.last # Absent /\ b >= size - h.last
                           ELSE b >= h.first /\ (h.last = Absent \/ b <= h.last)}
               range == ParseRange(h, size) IN
           IF asked = {} THEN range = "unsatisfiable" ELSE range.start .. range.end = asked

\* What was recorded is on the disk or served, whole and as announced.
RecordingInv == RecordingTypeOK /\ NothingDropped /\ ReadyIsServed

-----------------------------------------------------------------------------
(* What the code does not keep (README, Divergences).                      *)

\* "On remux failure the raw parts remain and are served as-is"
\* (egress.service.ts:571): not when the remux had created its file.
RawPartsAreServed ==
    phase = "over" /\ ~ready /\ ~deleted /\ ~entangled => \A k \in listed : Serves(k).is = "raw"

\* "sessions that failed before finalization serve their raw MPEG-TS part(s)"
\* (recordings.service.ts:109): not those after one that was never opened.
FailedPartsAreServed == phase = "failed" /\ mp4.is = "absent" => \A k \in opened : Serves(k).is = "raw"

\* A file is served when it is whole.
NoHalfFile == \A n \in Parts : Serves(n).is # "partial"

\* What is removed has no size.
RemovedHasNoSize == deleted /\ ~removing /\ phase = "over" => size = Unknown
=============================================================================
