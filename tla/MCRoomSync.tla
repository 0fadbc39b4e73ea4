----------------------------- MODULE MCRoomSync -----------------------------
(* RoomSync on small instances. *)
EXTENDS RoomSync
=============================================================================
