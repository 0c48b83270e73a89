-------------------------- MODULE MCRoomPlacement --------------------------
EXTENDS RoomPlacement

MCScenes ==
  {[unsteady |-> {1}, rooms |-> {"a"}, ends |-> {}],
   [unsteady |-> {}, rooms |-> Rooms, ends |-> Rooms]}
=============================================================================
