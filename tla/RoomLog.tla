------------------------------ MODULE RoomLog ------------------------------
(***************************************************************************)
(* What the room service promises, whatever replica a client talks to: one *)
(* log per room, to which each command is appended at most once, and only  *)
(* when the room that the whole log describes permits it.  Instances give  *)
(* RoomAggregate's history limits a value no log reaches, so a command id  *)
(* or a gift transaction is never forgotten here.                          *)
(***************************************************************************)
EXTENDS RoomAggregate

CONSTANTS
  Creation,   \* the command id that created the room
  CommandOf   \* CommandOf[id]: the command sent under the key id

VARIABLE log  \* the events after the creation

LogInit == log = <<>>

AppendOnce(id) ==
  /\ id # Creation /\ \A i \in 1 .. Len(log) : log[i].id # id
  /\ Applies(Restore(Creation, log), id, CommandOf[id])
  /\ log' = Append(log, Event(id, CommandOf[id]))

LogSpec == LogInit /\ [][\E id \in CommandIds : AppendOnce(id)]_log
=============================================================================
