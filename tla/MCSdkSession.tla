---------------------------- MODULE MCSdkSession ----------------------------
(***************************************************************************)
(* Three parts of a participant's client that live beside each other as    *)
(* long as the session lasts, on the instances that TLC checks: the        *)
(* session itself, the layers it asks for, and what is heard.  They share  *)
(* no state, and one of them acts in each behaviour.                       *)
(***************************************************************************)
EXTENDS SdkSession, PeerQuality, Speakers

\* A good link, one with loss and delay, and one with a poor picture too.
Good == [loss |-> 0, rtt |-> 0, jitter |-> 0, picture |-> "hd", slow |-> FALSE]
Fair == [loss |-> 4, rtt |-> 1, jitter |-> 0, picture |-> "mid", slow |-> FALSE]
Poor == [loss |-> 4, rtt |-> 2, jitter |-> 0, picture |-> "low", slow |-> FALSE]
MCReadings == {Good, Fair, Poor}

VARIABLE acting  \* the part that acts

vars == <<sessionVars, qualityVars, audioVars, acting>>

Init ==
    /\ acting \in {"session", "quality", "audio"}
    /\ SessionInit /\ QualityInit /\ AudioInit
    /\ acting = "quality" \/ reading = [u \in Watched |-> Good]

Next ==
    /\ UNCHANGED acting
    /\ \/ acting = "session" /\ SessionNext /\ UNCHANGED <<qualityVars, audioVars>>
       \/ acting = "quality" /\ QualityNext /\ UNCHANGED <<sessionVars, audioVars>>
       \/ acting = "audio" /\ AudioNext /\ UNCHANGED <<sessionVars, qualityVars>>

\* The session: timers fire, socket.io connects or gives up, the server
\* answers what it gets and the provider settles.  The layers: time passes,
\* timers run, the browser answers and the session connects.  What is heard:
\* the interval keeps firing.
FairSpec ==
    /\ Init /\ [][Next]_vars
    /\ WF_sessionVars(acting = "session" /\ JoinTimesOut)
    /\ WF_sessionVars(acting = "session" /\ (Up \/ GiveUp))
    /\ WF_sessionVars(acting = "session" /\ Answer)
    /\ WF_sessionVars(acting = "session" /\ Settle)
    /\ WF_qualityVars(acting = "quality" /\ Tick)
    /\ WF_qualityVars(acting = "quality" /\ Collect)
    /\ WF_qualityVars(acting = "quality" /\ Deliver)
    /\ WF_qualityVars(acting = "quality" /\ Bind)
    /\ \A u \in Watched : WF_qualityVars(acting = "quality" /\ Fire(u))
    /\ WF_audioVars(acting = "audio" /\ Sample)
=============================================================================
