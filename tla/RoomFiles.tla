----------------------------- MODULE RoomFiles -----------------------------
(***************************************************************************)
(* A room of a single api-server that keeps its state in snapshot files    *)
(* (RoomPersistence::Files).                                               *)
(*                                                                         *)
(* A command changes a copy of the room, writes a new snapshot file, and   *)
(* only then the room in memory.  A remembered media side effect changes   *)
(* the room in memory first and then writes a snapshot.  Both run under    *)
(* room_mutations and never yield, so only a crash or an I/O error comes   *)
(* between their steps.  The aggregate is abstracted to the commands it    *)
(* has applied; its sequence is one more than their number.                *)
(***************************************************************************)
EXTENDS Integers, FiniteSets, Sequences, SequencesExt, FiniteSetsExt

CONSTANTS
  CommandKeys, \* idempotency keys of room commands
  EffectIds,   \* idempotency keys of media side effects
  EffectLimit, \* SIDE_EFFECT_HISTORY_LIMIT (4096 in the code)
  KeepFiles,   \* snapshots prune_room_snapshots keeps (2 in the code)
  MaxRevision  \* model bound: revisions written

ASSUME FilesAssumption ==
  /\ EffectLimit \in Nat \ {0}
  /\ KeepFiles \in Nat \ {0}
  /\ MaxRevision \in Nat \ {0}

VARIABLES
  files,   \* files[n]: the snapshot renamed to revision n, in a set
  room,    \* the room in memory, in a set (empty: not loaded)
  op,      \* the handler under way
  acked,   \* commands whose clients were told "applied"
  effected \* history: a side effect ever changed the room in memory

filesVars == <<files, room, op, acked, effected>>

Revisions == 1 .. MaxRevision

\* A ManagedRoom, and what persisted_room writes of it.
Managed == [log : Seq(CommandKeys), effects : Seq(EffectIds), revision : Nat]

NewRoom == [log |-> <<>>, effects |-> <<>>, revision |-> 1]
NoOp == [pc |-> "idle", key |-> {}, room |-> NewRoom]

\* Files, room and handler have the shape of the structures they stand for:
\* one snapshot per revision, and a bounded side-effect history.
FilesTypeOK ==
  /\ files \in [Revisions -> SUBSET Managed]
  /\ \A n \in Revisions : Cardinality(files[n]) <= 1
  /\ room \subseteq Managed /\ Cardinality(room) <= 1
  /\ \A managed \in room : Len(managed.effects) <= EffectLimit
  /\ op.pc \in {"idle", "rename", "prune", "answer"}
  /\ op.key \subseteq CommandKeys \cup EffectIds
  /\ op.room \in Managed
  /\ acked \subseteq CommandKeys /\ effected \in BOOLEAN

\* create_room has persisted the first snapshot.
FilesInit ==
  /\ files = [n \in Revisions |-> IF n = 1 THEN {NewRoom} ELSE {}]
  /\ room = {NewRoom}
  /\ op = NoOp
  /\ acked = {} /\ effected = FALSE

-----------------------------------------------------------------------------
(* persist_managed_room.                                                   *)

\* path.exists()
Exists(n) == files[n] # {}

\* The early return: an identical snapshot is success, another one is the
\* error room_snapshot_revision_conflict; otherwise the temporary file is
\* written next.
PersistFrom(key, managed) ==
  \/ /\ ~Exists(managed.revision)
     /\ op' = [pc |-> "rename", key |-> key, room |-> managed]
  \/ /\ files[managed.revision] = {managed}
     /\ op' = [pc |-> "answer", key |-> key, room |-> managed]
  \/ /\ Exists(managed.revision) /\ files[managed.revision] # {managed}
     /\ op' = NoOp

\* The temporary file was written and synced: rename makes it the snapshot.
Rename ==
  /\ op.pc = "rename"
  /\ files' = [files EXCEPT ![op.room.revision] = {op.room}]
  /\ op' = [op EXCEPT !.pc = "prune"]
  /\ UNCHANGED <<room, acked, effected>>

\* Writing, syncing or renaming failed (or the snapshot is too large): the
\* temporary file is removed and the handler answers with an error.
WriteFails ==
  /\ op.pc = "rename"
  /\ op' = NoOp
  /\ UNCHANGED <<files, room, acked, effected>>

\* The snapshots that prune_room_snapshots removes: up to the current
\* revision, all but the newest ones.
Old(current) ==
  {n \in 1 .. current : Exists(n) /\
     Cardinality({m \in n + 1 .. current : Exists(m)}) >= KeepFiles}

\* prune_room_snapshots.  A file that cannot be removed is left.
Prune ==
  /\ op.pc = "prune"
  /\ \E gone \in SUBSET Old(op.room.revision) :
       files' = [n \in Revisions |-> IF n \in gone THEN {} ELSE files[n]]
  /\ op' = [op EXCEPT !.pc = "answer"]
  /\ UNCHANGED <<room, acked, effected>>

-----------------------------------------------------------------------------
(* execute_room_command with the file store.                               *)

\* Room::execute on a copy, then persist_appended_room.
Command(id) ==
  /\ op.pc = "idle"
  /\ \E managed \in room :
       /\ id \notin Range(managed.log)
       /\ managed.revision < MaxRevision
       /\ PersistFrom({id}, [managed EXCEPT !.log = Append(@, id),
                                            !.revision = @ + 1])
  /\ UNCHANGED <<files, room, acked, effected>>

\* The aggregate already holds the command: answered as a duplicate.
CommandAgain(id) ==
  /\ op.pc = "idle"
  /\ \E managed \in room : id \in Range(managed.log)
  /\ acked' = acked \cup {id}
  /\ UNCHANGED <<files, room, op, effected>>

\* Mutant of CommandDone: the candidate does not go into the registry.
CommandDoneOnDisk ==
  /\ op.pc = "answer" /\ op.key \subseteq CommandKeys
  /\ acked' = acked \cup op.key
  /\ op' = NoOp
  /\ UNCHANGED <<files, room, effected>>

\* rooms.insert(room_id, candidate) and the answer.
CommandDone ==
  /\ op.pc = "answer" /\ op.key \subseteq CommandKeys
  /\ room' = {op.room}
  /\ acked' = acked \cup op.key
  /\ op' = NoOp
  /\ UNCHANGED <<files, effected>>

-----------------------------------------------------------------------------
(* remember_side_effect with the file store.                               *)

\* The key joins the queue, and prune_side_effects drops the oldest.
Remembered(effects, id) ==
  IF Len(effects) < EffectLimit THEN Append(effects, id)
                                ELSE Append(Tail(effects), id)

\* The room in memory changes before persist_managed_room runs.  A key that is
\* already there changes nothing.
SideEffect(id) ==
  /\ op.pc = "idle"
  /\ \E managed \in room :
       LET changed == [managed EXCEPT !.effects = Remembered(@, id),
                                      !.revision = @ + 1]
       IN  /\ id \notin Range(managed.effects)
           /\ managed.revision < MaxRevision
           /\ room' = {changed}
           /\ PersistFrom({id}, changed)
  /\ effected' = TRUE
  /\ UNCHANGED <<files, acked>>

\* The snapshot is written; the room in memory has changed already.
SideEffectDone ==
  /\ op.pc = "answer" /\ op.key \subseteq EffectIds
  /\ op' = NoOp
  /\ UNCHANGED <<files, room, acked, effected>>

-----------------------------------------------------------------------------
(* Restart.                                                                *)

\* managed_from_persisted and the file name test of load_rooms: the room's
\* sequence must be the revision in the snapshot and in its name.
Loadable(n, managed) ==
  /\ managed.revision = n
  /\ Len(managed.log) + 1 = managed.revision

\* load_rooms: the valid snapshot with the highest revision, if there is one.
Loaded ==
  LET valid == {n \in Revisions : \E m \in files[n] : Loadable(n, m)}
  IN  IF valid = {} THEN {} ELSE files[Max(valid)]

\* The process dies at any step and starts again.  A temporary file that was
\* not renamed is not a snapshot.
Restart ==
  /\ room' = Loaded
  /\ op' = NoOp
  /\ UNCHANGED <<files, acked, effected>>

-----------------------------------------------------------------------------
FilesNext ==
  \/ \E id \in CommandKeys : Command(id) \/ CommandAgain(id)
  \/ \E id \in EffectIds : SideEffect(id)
  \/ CommandDone \/ SideEffectDone
  \/ Rename \/ WriteFails \/ Prune
  \/ Restart

FilesSpec == FilesInit /\ [][FilesNext]_filesVars

-----------------------------------------------------------------------------
(* Properties.                                                             *)

\* A command a client was told is applied is in the snapshot that the next
\* start will load, whenever the process dies.
AckedSurvivesRestart ==
  \E managed \in Loaded : acked \subseteq Range(managed.log)

\* That holds as long as no media side effect was remembered.
CommandsSurviveRestart == ~effected => AckedSurvivesRestart

\* Without side effects, between two handlers the room in memory is the one a
\* restart would load, after I/O errors and failed pruning too.
MemoryTracksFiles == op.pc = "idle" /\ ~effected => room = Loaded

\* The files hold what the client was told and what is in memory, as long as
\* no side effect is remembered.
FilesAreCurrent ==
  /\ FilesTypeOK /\ CommandsSurviveRestart /\ MemoryTracksFiles
=============================================================================
