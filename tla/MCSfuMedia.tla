----------------------------- MODULE MCSfuMedia -----------------------------
(***************************************************************************)
(* The media of one room, on the instances that TLC checks: what the       *)
(* server keeps for each socket (SfuMedia), and what a host's panel says   *)
(* of a participant's producers (Roster).  They share no variable, so one  *)
(* of them acts in each behaviour.                                         *)
(***************************************************************************)
EXTENDS SfuMedia, Roster, TLC

Symmetric == Permutations(Sockets) \cup Permutations(Producers)

VARIABLE acting  \* the part that acts

MediaRoomInit ==
    /\ acting \in {"media", "roster"}
    /\ Init /\ RosterInit
    /\ acting = "media" => producer = [k \in Kinds |-> "none"]

MediaRoomNext ==
    /\ UNCHANGED acting
    /\ \/ acting = "media" /\ Next /\ UNCHANGED rosterVars
       \/ acting = "roster" /\ RosterNext /\ UNCHANGED vars

MediaRoomSpec == MediaRoomInit /\ [][MediaRoomNext]_<<vars, rosterVars, acting>>

=============================================================================
