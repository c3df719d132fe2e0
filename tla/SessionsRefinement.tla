------------------------- MODULE SessionsRefinement -------------------------
(***************************************************************************)
(* The registry of Sessions implements the rooms of CollabRooms.  A room's *)
(* members are the collab's list of senders; its media file is the one the *)
(* collab is mapped to, while there is anybody: the mapping a joiner makes *)
(* before it is listed, and the one the last to leave has left for the     *)
(* garbage collection, do not show.                                        *)
(***************************************************************************)
EXTENDS Sessions

showingOf == [c \in Collab |-> IF collabSenders[c] = {} THEN NULL ELSE collabMedia[c]]

Rooms == INSTANCE CollabRooms WITH members <- collabSenders, showing <- showingOf

\* Every step of every session is a step of the rooms, or none: the locks of link_session_to_collab
\* make the lookup of the mapping and the listing of the sender one.
ImplementsRooms == Rooms!RoomSpec
=============================================================================
