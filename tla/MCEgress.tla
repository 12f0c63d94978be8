------------------------------ MODULE MCEgress ------------------------------
(***************************************************************************)
(* Sessions of one room: their rows, processes, ports and stops (Egress),  *)
(* and what their builds make of the room's producers (Program).  The two  *)
(* are two views of startPipeline that share no variable, so one of them   *)
(* acts in each behaviour.                                                 *)
(***************************************************************************)
EXTENDS Egress, Program, TLC

CONSTANTS m1, v1, v2

\* A microphone, a screen and a camera.
MCKindOf ==
    [p \in Sources |->
        CASE p = m1 -> "audio" [] p = v1 -> "screen" [] p = v2 -> "camera"]

VARIABLE acting  \* the part that acts

EgressInit ==
    /\ acting \in {"session", "program"}
    /\ Init /\ ProgramInit
    /\ acting = "session" => onAir = <<>>

EgressNext ==
    /\ UNCHANGED acting
    /\ \/ acting = "session" /\ Next /\ UNCHANGED programVars
       \/ acting = "program" /\ ProgramNext /\ UNCHANGED vars

EgressFairSpec == EgressInit /\ [][EgressNext]_<<vars, programVars, acting>> /\ Fairness

=============================================================================
