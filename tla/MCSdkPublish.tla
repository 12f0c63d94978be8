---------------------------- MODULE MCSdkPublish ----------------------------
(***************************************************************************)
(* Seven parts of a participant's client that follow what the user does,   *)
(* on the instances that TLC checks: publishing, a capture, the actions    *)
(* that wait for an answer, the device surface, the stage, the way into    *)
(* the room, and the board.  They share no state, and one of them acts in  *)
(* each behaviour.                                                         *)
(***************************************************************************)
EXTENDS SdkPublish, Actions, Devices, Layout, Prejoin, Binding, Capture

CONSTANTS r1, r2, r3

\* A session started and stopped beside a broadcast; two broadcasts and a
\* start; host controls; and what is not well formed.
Asking(a, b, c) == [r \in Requests |-> IF r = r1 THEN a ELSE IF r = r2 THEN b ELSE c]
MCWishes == {Asking("record", "stop", "broadcast"), Asking("broadcast", "broadcast", "hls"),
             Asking("mute", "lock", "kick"), Asking("nothing", "misnamed", "oversized")}

\* Not measured, square, wide, tall, between, and small.
MCStageSizes == {<<0, 0>>, <<50, 50>>, <<100, 60>>, <<52, 96>>, <<75, 50>>, <<30, 20>>}

VARIABLE acting  \* the part that acts

vars == <<publishVars, actionVars, deviceVars, layoutVars, prejoinVars, captureVars, bindingVars, acting>>

Init ==
    /\ acting \in {"publish", "actions", "devices", "layout", "prejoin", "board", "capture"}
    /\ PublishInit /\ ActionsInit /\ DevicesInit /\ LayoutInit /\ PrejoinInit
    /\ CaptureInit /\ BindingInit
    /\ acting = "publish" \/ \A s \in Sources : live[s] = 0
    /\ acting = "board" \/ reports = <<>>
    /\ acting = "actions" \/ (can = {} /\ owned /\ kind = Asking("mute", "lock", "kick"))
    /\ acting = "prejoin" \/ (host = "page" /\ ~skip)

Next ==
    /\ UNCHANGED acting
    /\ \/ acting = "publish" /\ PublishNext
          /\ UNCHANGED <<actionVars, deviceVars, layoutVars, prejoinVars, captureVars, bindingVars>>
       \/ acting = "actions" /\ ActionsNext
          /\ UNCHANGED <<publishVars, deviceVars, layoutVars, prejoinVars, captureVars, bindingVars>>
       \/ acting = "devices" /\ DevicesNext
          /\ UNCHANGED <<publishVars, actionVars, layoutVars, prejoinVars, captureVars, bindingVars>>
       \/ acting = "layout" /\ LayoutNext
          /\ UNCHANGED <<publishVars, actionVars, deviceVars, prejoinVars, captureVars, bindingVars>>
       \/ acting = "prejoin" /\ PrejoinNext
          /\ UNCHANGED <<publishVars, actionVars, deviceVars, layoutVars, captureVars, bindingVars>>
       \/ acting = "board" /\ BindingNext
          /\ UNCHANGED <<publishVars, actionVars, deviceVars, layoutVars, prejoinVars, captureVars>>
       \/ acting = "capture" /\ CaptureNext
          /\ UNCHANGED <<publishVars, actionVars, deviceVars, layoutVars, prejoinVars, bindingVars>>

Spec == Init /\ [][Next]_vars

\* The user's captures, tracks and drawings are what the user, and the
\* others, are shown.
ClientInv == PublishInv /\ CaptureInv /\ BindingInv
=============================================================================
