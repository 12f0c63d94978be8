---------------------------- MODULE MCServerData ----------------------------
(***************************************************************************)
(* What the server keeps besides the calls, on the instances that TLC      *)
(* checks: sessions and accounts of the application, the platform with its *)
(* developers, recordings, lists page by page, the boards, and who a browser *)
(* is to each room.  These parts share no state in the code, and neither do  *)
(* they here: one of them acts in each behaviour, and the others rest where  *)
(* they began.                                                              *)
(***************************************************************************)
EXTENDS Auth, Platform, Recordings, Pages, Whiteboard, Identity

CONSTANTS t1, t2, t3, d1, d2, p1, p2

\* Two tabs on one device, one on another.
MCDeviceOf == [t \in Tabs |-> IF t = t3 THEN d2 ELSE d1]

\* Both developers have the same name in the application's eyes.
MCUserName == [p \in People |-> "n"]

VARIABLE acting  \* the part that acts

vars == <<authVars, platformVars, recordingVars, pageVars, boardVars,
          identityVars, acting>>

Init ==
    /\ acting \in {"auth", "platform", "recordings", "pages", "board", "browser"}
    /\ AuthInit /\ PlatformInit /\ RecordingInit /\ PageInit /\ BoardInit
    /\ IdentityInit /\ (acting # "browser" => access = "none")

Next ==
    /\ UNCHANGED acting
    /\ \/ acting = "auth" /\ AuthNext
          /\ UNCHANGED <<platformVars, recordingVars, pageVars, boardVars,
                         identityVars>>
       \/ acting = "platform" /\ PlatformNext
          /\ UNCHANGED <<authVars, recordingVars, pageVars, boardVars,
                         identityVars>>
       \/ acting = "recordings" /\ RecordingNext
          /\ UNCHANGED <<authVars, platformVars, pageVars, boardVars,
                         identityVars>>
       \/ acting = "pages" /\ PageNext
          /\ UNCHANGED <<authVars, platformVars, recordingVars, boardVars,
                         identityVars>>
       \/ acting = "board" /\ BoardNext
          /\ UNCHANGED <<authVars, platformVars, recordingVars, pageVars,
                         identityVars>>
       \/ acting = "browser" /\ IdentityNext
          /\ UNCHANGED <<authVars, platformVars, recordingVars, pageVars,
                         boardVars>>

Spec == Init /\ [][Next]_vars
=============================================================================
