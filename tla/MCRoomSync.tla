------------------------------ MODULE MCRoomSync ------------------------------
(* Small instances of RoomSync: pages of two messages, a room of a few.      *)
EXTENDS RoomSync

SecondIsChatter == {2}
=============================================================================
