---------------------------- MODULE CollabRooms ----------------------------
(***************************************************************************)
(* What a collab promises its users: a room in which everybody is in front *)
(* of the same media file.  The room belongs to whoever comes into it      *)
(* while it is empty, a person is in one room at most, and nobody is in a  *)
(* room with another file on the screen.                                   *)
(***************************************************************************)
CONSTANTS Sid, Media, Collab, NULL

VARIABLES members,  \* who is in each room
          showing   \* the media file of each room, NULL while it is empty

roomVars == <<members, showing>>

RoomInit ==
    /\ members = [c \in Collab |-> {}]
    /\ showing = [c \in Collab |-> NULL]

Enter(s, c, m) ==
    /\ \A d \in Collab : s \notin members[d]
    /\ members[c] = {} \/ showing[c] = m
    /\ members' = [members EXCEPT ![c] = @ \cup {s}]
    /\ showing' = [showing EXCEPT ![c] = m]

Leave(s, c) ==
    /\ s \in members[c]
    /\ members' = [members EXCEPT ![c] = @ \ {s}]
    /\ showing' = IF members[c] = {s} THEN [showing EXCEPT ![c] = NULL] ELSE showing

RoomNext ==
    \E s \in Sid, c \in Collab :
        \/ \E m \in Media : Enter(s, c, m)
        \/ Leave(s, c)

RoomSpec == RoomInit /\ [][RoomNext]_roomVars
=============================================================================
