---------------------------- MODULE MCRoomFiles ----------------------------
(* Small instances of RoomFiles.                                           *)
EXTENDS RoomFiles

CONSTANTS k1, k2, k3, e1, e2
=============================================================================
