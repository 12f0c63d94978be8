-------------------------------- MODULE Rooms --------------------------------
(***************************************************************************)
(* A room's row, its messages and the records of its calls in the          *)
(* database, and the requests that end it (apps/server/src/room).  Every   *)
(* await is a step of its own; a transaction is one step.                  *)
(***************************************************************************)
EXTENDS Naturals, Sequences, SequencesExt, FiniteSets

CONSTANTS
    OwnerTabs,     \* the owner's tabs, or the calls of the project's backend
    MaxActs  \* bound: what people and their networks do in all

ASSUME MaxActsIsNat == MaxActs \in Nat

VARIABLES
    owned,    \* the room has an owner (it belongs to a project otherwise)
    room,     \* its row: "active", "ended" or "gone"
    endedAt,  \* "none", "fresh" or "old": an hour ago and more
    messages, \* its messages in the order they were created
    records,  \* the call records: the transcript of each
    ending,   \* what each tab's request to end the room has come to
    seated,   \* the owner's tabs with a seat in the room (RoomPresence)
    acts

rows == <<owned, room, endedAt, messages, records>>
roomVars == <<rows, ending, seated, acts>>

Act == acts < MaxActs /\ acts' = acts + 1

NoEnd == [at |-> "idle", seen |-> <<>>]

RoomsInit ==
    /\ owned \in BOOLEAN /\ room = "active" /\ endedAt = "none"
    /\ messages = <<>> /\ records = <<>>
    /\ ending = [t \in OwnerTabs |-> NoEnd] /\ seated = {} /\ acts = 0

\* deleteRoom, up to the read of the room with its messages.
ReadRoom(t) ==
    /\ Act /\ ending[t] = NoEnd /\ room # "gone"
    /\ ending' = [ending EXCEPT ![t] = [at |-> "read", seen |-> messages]]
    /\ UNCHANGED <<rows, seated>>

\* The transaction: the end, and the record with what was read before.
EndRoom(t) ==
    /\ ending[t].at = "read"
    /\ room # "gone"
    /\ room' = "ended" /\ endedAt' = "fresh"
    /\ records' = IF owned THEN Append(records, ending[t].seen) ELSE records
    /\ ending' = [ending EXCEPT ![t] = [at |-> "closing", seen |-> <<>>]]
    /\ UNCHANGED <<owned, messages, seated, acts>>

\* The row is gone: the transaction fails.
EndFails(t) ==
    /\ ending[t].at = "read" /\ room = "gone"
    /\ ending' = [ending EXCEPT ![t] = NoEnd]
    /\ UNCHANGED <<rows, seated, acts>>

\* presence.endRoom: nobody keeps a seat (RoomPresence).
CloseRoom(t) ==
    /\ ending[t].at = "closing"
    /\ ending' = [ending EXCEPT ![t] = NoEnd]
    /\ seated' = {}
    /\ UNCHANGED <<rows, acts>>

\* updateRoom: the dto may set the status, and nothing else goes with it.
Patch(status) ==
    /\ Act /\ room \notin {"gone", status} /\ room' = status
    /\ UNCHANGED <<owned, endedAt, messages, records, ending, seated>>

\* deleteCallRecord
DeleteRecord ==
    /\ Act /\ records # <<>> /\ records' = Tail(records)
    /\ UNCHANGED <<owned, room, endedAt, messages, ending, seated>>

\* An hour goes by; no request takes that long.
Hour ==
    /\ endedAt = "fresh" /\ \A t \in OwnerTabs : ending[t] = NoEnd
    /\ endedAt' = "old"
    /\ UNCHANGED <<owned, room, messages, records, ending, seated, acts>>

\* cleanupOldRooms: the messages go with the room.
CleanUp ==
    /\ room = "ended" /\ endedAt = "old"
    /\ room' = "gone" /\ messages' = <<>>
    /\ UNCHANGED <<owned, endedAt, records, ending, seated, acts>>

RoomsNext ==
    \/ \E t \in OwnerTabs : ReadRoom(t) \/ EndRoom(t) \/ EndFails(t)
    \/ \E s \in {"active", "ended"} : Patch(s)
    \/ DeleteRecord \/ Hour \/ CleanUp

-----------------------------------------------------------------------------
(* What the comment on softDeleteRoom promises and TLC refutes: see        *)
(* README, Divergences.                                                    *)

\* Divergence: a room that has ended has the transcript of all its messages
\* (a message created after the read is missing).
TranscriptIsFinal ==
    owned /\ room = "ended" /\ endedAt # "none" /\ records # <<>> => Last(records) = messages

\* Divergence: a room that did not end has no record (it is made active again).
RecordMeansEnded == records # <<>> => room # "active"

\* Divergence: a call has one record (two requests to end it make two).
OneRecord == Len(records) <= 1

\* Divergence: a room that has ended can be cleaned up (not after updateRoom).
EndedIsDated == room = "ended" => endedAt # "none"
=============================================================================
