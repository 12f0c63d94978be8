--------------------------- MODULE MCSdkSubscribe ---------------------------
(* The instance of SdkSubscribe that TLC checks. *)
EXTENDS SdkSubscribe, TLC

CONSTANTS u1, u2, p1, p2

MCOwner == p1 :> u1 @@ p2 :> u2

=============================================================================
