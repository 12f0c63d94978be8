--------------------------- MODULE MCRoomPresence ---------------------------
(* TLC instances of RoomPresence: a host, a participant with a second       *)
(* socket (another tab, or a reconnection) and, in the wide one, a third    *)
(* user.                                                                    *)
EXTENDS RoomPresence, TLC

CONSTANTS h1, a1, a2, b1, host, ann, bob

MCUserOf == h1 :> host @@ a1 :> ann @@ a2 :> ann @@ b1 :> bob

MCUserOfPair == h1 :> host @@ a1 :> ann @@ a2 :> ann

\* ann's two sockets behave alike.
MCSymmetry == Permutations({a1, a2})

=============================================================================
