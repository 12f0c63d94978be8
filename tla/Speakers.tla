------------------------------ MODULE Speakers ------------------------------
(***************************************************************************)
(* Who is heard and who is shown as speaking:                              *)
(* packages/client/src/audio/active-speaker-detector.ts and                *)
(* audio-level-sampler.ts, the engine that feeds them                      *)
(* (packages/react/src/hooks/use-audio-activity.ts), and the playout of    *)
(* the others (remote-audio-mixer.ts under use-remote-audio.ts).           *)
(*                                                                         *)
(* A track is a number, 0 being none.  A level is a number of steps above  *)
(* the speaking threshold, 0 being below it; its smoothing is left out.    *)
(* The local participant is Me.                                            *)
(***************************************************************************)
EXTENDS Integers, FiniteSets

CONSTANTS
    Users,     \* the others
    Me,
    Levels,    \* levels a voice may have
    Hold,      \* holdTime in ticks of the engine (8)
    MaxTracks, \* bound: audio tracks of one participant
    MaxDeeds   \* bound: things that happen

ASSUME MeIsNotAnother == Me \notin Users
ASSUME LevelsAreNat == Levels \subseteq Nat /\ 0 \in Levels
ASSUME HoldIsNat == {Hold, MaxTracks, MaxDeeds} \subseteq Nat

VARIABLES
    voice,     \* voice[p]: how loud p is
    audio,     \* audio[u]: the audio track of u that is consumed
    last,      \* last[p]: the last track of p
    mic,       \* the track that one produces
    preview,   \* setLocalAudio: the capture's track, or that of the manager
    readers,   \* components that hold the engine (refCount)
    entries,   \* entries[p]: the track that is sampled for p
    detector,  \* [who, since, level, silence], times in ticks that passed
    speaking,  \* what the engine's snapshot says
    attached,  \* the hook has a manager, and a mixer
    shown,     \* audioStream of each participant as the tracker has it
    placed,    \* prevTrackIdsRef: what the last effect has placed
    peers,     \* the mixer: peers[u] = [track, gain, sink]
    volumes,   \* volumesRef; Absent if the user chose none
    sink,      \* the mixer's output device
    deeds

voices == <<voice, audio, last, mic, preview>>
activity == <<readers, entries, detector, speaking>>
playout == <<attached, shown, placed, peers, volumes, sink>>
audioVars == <<voices, activity, playout, deeds>>

Absent == -1
People == Users \cup {Me}
Nobody == [who |-> Absent, since |-> 0, level |-> 0, silence |-> Absent]
Silent == [p \in People |-> 0]
Deed == deeds < MaxDeeds /\ deeds' = deeds + 1

-----------------------------------------------------------------------------
(* ActiveSpeakerDetector.detect                                            *)

Older(t) == IF t = Absent \/ t > Hold THEN t ELSE t + 1
Aged(d) == [d EXCEPT !.since = Older(@), !.silence = Older(@)]

Named(p, l) == [who |-> p, since |-> 0, level |-> l, silence |-> Absent]

\* Variant: silence is counted once and never ends.
SilenceBegins(d) == IF d.who # Absent /\ d.silence = Absent THEN [d EXCEPT !.silence = 0] ELSE d

\* Nobody is above the threshold.
Quiet(d) == IF d.who = Absent THEN d
            ELSE IF d.silence = Absent THEN [d EXCEPT !.silence = 0]
            ELSE IF d.silence > Hold THEN Nobody ELSE d

\* p is the loudest, with level l; another is named only when the hold is
\* over, and by a margin of 1.3 over the level last seen of the one named.
Loudest(d, p, l) ==
    IF d.who = Absent THEN Named(p, l)
    ELSE IF d.who = p THEN [d EXCEPT !.level = l, !.silence = Absent]
    ELSE IF d.since >= Hold /\ 10 * l > 13 * d.level THEN Named(p, l) ELSE d

-----------------------------------------------------------------------------
(* The engine.                                                             *)

\* What is heard through the entries; a track that was replaced is silent.
Heard(en) == [p \in People |-> IF en[p] # 0 /\ en[p] = last[p] THEN voice[p] ELSE 0]

LocalTrack == IF preview # Absent THEN preview ELSE mic

\* tick(): the local entry is reconciled, the levels sampled, the speaker
\* detected.
Sample ==
    /\ readers > 0
    /\ LET en == [entries EXCEPT ![Me] = LocalTrack]
           l == Heard(en)
           d == Aged(detector)
           top == {p \in People : l[p] > 0 /\ \A q \in People : l[q] <= l[p]} IN
       /\ entries' = en
       /\ \/ top = {} /\ detector' = Quiet(d)
          \/ \E p \in top : detector' = Loudest(d, p, l[p])
    /\ speaking' = detector'.who
    /\ UNCHANGED <<voices, readers, playout, deeds>>

\* acquire() and release(): the last that goes stops the engine.
Acquire ==
    /\ Deed /\ readers < 2
    /\ readers' = readers + 1
    /\ UNCHANGED <<voices, entries, detector, speaking, playout>>

Release ==
    /\ Deed /\ readers > 0
    /\ readers' = readers - 1
    /\ IF readers = 1
       THEN entries' = Silent /\ detector' = Nobody /\ speaking' = Absent
       ELSE UNCHANGED <<entries, detector, speaking>>
    /\ UNCHANGED <<voices, playout>>

-----------------------------------------------------------------------------
(* What happens to the tracks.                                             *)

Speak(p, l) ==
    /\ Deed /\ voice[p] # l
    /\ voice' = [voice EXCEPT ![p] = l]
    /\ UNCHANGED <<audio, last, mic, preview, activity, playout>>

\* onTrack: the engine attaches it, the tracker shows it.
Track(u) ==
    /\ Deed /\ attached /\ last[u] < MaxTracks
    /\ last' = [last EXCEPT ![u] = @ + 1]
    /\ audio' = [audio EXCEPT ![u] = last'[u]]
    /\ shown' = [shown EXCEPT ![u] = last'[u]]
    /\ entries' = IF readers > 0 THEN [entries EXCEPT ![u] = last'[u]] ELSE entries
    /\ UNCHANGED <<voice, mic, preview, readers, detector, speaking, attached, placed, peers, volumes, sink>>

\* onParticipantLeft: detachRemote; the detector keeps its state.
Depart(u) ==
    /\ Deed /\ attached /\ audio[u] # 0
    /\ audio' = [audio EXCEPT ![u] = 0]
    /\ shown' = [shown EXCEPT ![u] = 0]
    /\ entries' = [entries EXCEPT ![u] = 0]
    /\ UNCHANGED <<voice, last, mic, preview, readers, detector, speaking, attached, placed, peers, volumes, sink>>

\* One's own microphone is produced or is not; the capture is previewed.
Microphone ==
    /\ Deed
    /\ \/ mic = 0 /\ last[Me] < MaxTracks /\ last' = [last EXCEPT ![Me] = @ + 1]
          /\ mic' = last'[Me] /\ UNCHANGED preview
       \/ mic # 0 /\ mic' = 0 /\ UNCHANGED <<last, preview>>
       \/ preview' = (IF preview = Absent THEN mic ELSE Absent) /\ UNCHANGED <<last, mic>>
    /\ UNCHANGED <<voice, audio, activity, playout>>

-----------------------------------------------------------------------------
(* The playout.                                                            *)

NoPeer == [track |-> 0, gain |-> 1, sink |-> Absent]

\* The effect of [manager]: a mixer is made, or destroyed with the volumes.
Attach ==
    /\ Deed /\ ~attached /\ attached' = TRUE
    /\ UNCHANGED <<voices, activity, shown, placed, peers, volumes, sink>>

Detach ==
    /\ Deed /\ attached /\ attached' = FALSE
    /\ audio' = [u \in Users |-> 0] /\ shown' = audio' /\ placed' = audio'
    /\ peers' = [u \in Users |-> NoPeer] /\ volumes' = [u \in Users |-> Absent]
    /\ sink' = Absent
    /\ readers' = 0 /\ entries' = Silent /\ detector' = Nobody /\ speaking' = Absent
    /\ UNCHANGED <<voice, last, mic, preview>>

Chosen(u) == IF volumes[u] = Absent THEN 1 ELSE volumes[u]

\* Variant: the volume is given to a new peer only.
Fresh(u) == [track |-> shown[u], gain |-> IF placed[u] = 0 THEN Chosen(u) ELSE 1, sink |-> sink]

\* addPeer (or updatePeerTrack, which is addPeer) and the stored volume.
Placed(u) == [track |-> shown[u], gain |-> Chosen(u), sink |-> sink]

\* The effect of [participants]: new and swapped tracks are placed; what is
\* gone is only forgotten.
Place ==
    /\ attached /\ placed # shown
    /\ peers' = [u \in Users |-> IF shown[u] \notin {0, placed[u]} THEN Placed(u) ELSE peers[u]]
    /\ placed' = shown
    /\ UNCHANGED <<voices, activity, attached, shown, volumes, sink, deeds>>

SetVolume(u, v) ==
    /\ Deed /\ volumes[u] # v
    /\ volumes' = [volumes EXCEPT ![u] = v]
    /\ peers' = IF peers[u].track # 0 THEN [peers EXCEPT ![u].gain = v] ELSE peers
    /\ UNCHANGED <<voices, activity, attached, shown, placed, sink>>

SetSink(s) ==
    /\ Deed /\ attached /\ sink # s
    /\ sink' = s
    /\ peers' = [u \in Users |-> IF peers[u].track # 0 THEN [peers[u] EXCEPT !.sink = s] ELSE peers[u]]
    /\ UNCHANGED <<voices, activity, attached, shown, placed, volumes>>

AudioInit ==
    /\ voice = Silent /\ last = Silent
    /\ audio = [u \in Users |-> 0] /\ shown = audio /\ placed = audio
    /\ mic = 0 /\ preview = Absent
    /\ readers = 1 /\ entries = Silent /\ detector = Nobody /\ speaking = Absent
    /\ attached = TRUE
    /\ peers = [u \in Users |-> NoPeer] /\ volumes = [u \in Users |-> Absent] /\ sink = Absent
    /\ deeds = 0

AudioNext ==
    \/ Sample \/ Acquire \/ Release \/ Microphone \/ Attach \/ Detach \/ Place
    \/ \E p \in People, l \in Levels : Speak(p, l)
    \/ \E u \in Users : Track(u) \/ Depart(u)
    \/ \E u \in Users, v \in {0, 1} : SetVolume(u, v)
    \/ \E s \in {1, 2} : SetSink(s)

AudioSpec == AudioInit /\ [][AudioNext]_audioVars

-----------------------------------------------------------------------------
AudioTypeOK ==
    /\ voice \in [People -> Levels] /\ last \in [People -> 0 .. MaxTracks]
    /\ {audio, shown, placed} \subseteq [Users -> 0 .. MaxTracks]
    /\ mic \in 0 .. MaxTracks /\ preview \in Absent .. MaxTracks
    /\ readers \in 0 .. 2 /\ entries \in [People -> 0 .. MaxTracks]
    /\ detector.who \in People \cup {Absent} /\ detector.since \in 0 .. Hold + 1
    /\ detector.level \in Levels /\ detector.silence \in Absent .. Hold + 1
    /\ speaking \in People \cup {Absent}
    /\ peers \in [Users -> [track : 0 .. MaxTracks, gain : {0, 1}, sink : {Absent, 1, 2}]]
    /\ volumes \in [Users -> {Absent, 0, 1}] /\ sink \in {Absent, 1, 2}
    /\ attached \in BOOLEAN /\ deeds \in 0 .. MaxDeeds

\* Whoever's track the effect has placed plays that track, at the volume the
\* user chose for them and on the chosen device, however often the track was
\* swapped ("the stored volume must be re-applied either way",
\* use-remote-audio.ts).
PlayoutIsAsChosen ==
    /\ AudioTypeOK
    /\ \A u \in Users : attached /\ shown[u] # 0 /\ placed[u] = shown[u] => peers[u] = Placed(u)

\* When everyone stays silent nobody is shown as speaking in the end, even
\* if the one that was has left ("Silence reports null",
\* openspec/specs/sdk/spec.md).
SilenceIsReported == <>[](\A p \in People : Heard(entries)[p] = 0) => <>[](speaking = Absent)

-----------------------------------------------------------------------------
(* What the code does not keep (README, Divergences).                      *)

\* p is louder than everyone else by the margin.
Louder(p) ==
    /\ readers > 0 /\ Heard(entries)[p] > 0
    /\ \A q \in People \ {p} : 10 * Heard(entries)[p] > 13 * Heard(entries)[q]

\* Whoever stays louder than everyone else by the margin is shown as
\* speaking in the end (same file, "Active speaker switches"): the margin is
\* over the level the other had when it was last the loudest.
LouderIsNamed == \A p \in People : <>[]Louder(p) => <>[](speaking = p)

\* Every track that is consumed is sampled while somebody reads the levels;
\* one that came before the engine started is not.
EveryTrackIsSampled == readers > 0 => \A u \in Users : audio[u] # 0 => entries[u] = audio[u]

\* Only those present play; nobody removes the others from the mixer.
OnlyPresentPlay == \A u \in Users : placed = shown /\ shown[u] = 0 => peers[u].track = 0
=============================================================================
