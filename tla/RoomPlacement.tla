---------------------------- MODULE RoomPlacement ----------------------------
(***************************************************************************)
(* Which media node a room is on: heartbeats, draining and placement       *)
(* (crates/control-plane/{status-client,status-service,control-store},     *)
(* crates/services/media-node/src/main.rs and                              *)
(* crates/services/api-server/src/control_client.rs).                      *)
(*                                                                         *)
(* A node reports itself to the status service, which notes the report in  *)
(* its registry and then writes the node's row of the control store.  When *)
(* it stops, it sends a last report, draining, beside the one its periodic *)
(* task may have on the way.  Every request of the API about a room asks   *)
(* the store for the room's node: the placement there is, if its node is   *)
(* healthy and heard of lately, or a new one on the least loaded node.     *)
(* The transaction that makes a new one reads the placements, locks the    *)
(* row of the node it takes, passing over rows that are locked, and writes *)
(* the placement: steps of other transactions come in between.             *)
(***************************************************************************)
EXTENDS Integers, FiniteSets, Sequences, SequencesExt

CONSTANTS
  MediaNodes,          \* media nodes, numbers: the order of node_id
  Rooms,
  Requests,       \* requests of the API under way at once
  Limit,          \* rooms_limit of a node
  StaleAfter,     \* placement_stale_after, in heartbeat intervals
  Scenes          \* what happens: the nodes that drain, die or fall silent
                  \* (unsteady), the rooms asked for (rooms) and ended (ends)

ASSUME PlacementAssumption ==
  /\ MediaNodes \subseteq Nat
  /\ Scenes \subseteq [unsteady : SUBSET MediaNodes, rooms : SUBSET Rooms,
                       ends : SUBSET Rooms]
  /\ Limit \in Nat \ {0}
  /\ StaleAfter \in Nat

VARIABLES
  scene,       \* one of Scenes
  node,        \* state of a node: up, draining or down
  reports,     \* reports of a node under way: the periodic one, the last one
  registry,    \* StatusRegistry: what the status service last heard
  rows,        \* fluvora_media_nodes
  placement,   \* fluvora_room_placements: the node of a room
  request,     \* place_room transactions
  ending,      \* end_room: whether a room is ended, cleaned up and removed
  told,        \* history: nodes whose draining the store has confirmed
  overtaken,   \* history: of these, the ones with an older report under way
  split,       \* history: nodes whose two records were written apart
  overlapped,  \* history: nodes taken on a count that had changed
  late         \* history: ended rooms that were asked for afterwards

heartbeat == <<scene, node, reports, registry, rows, told, overtaken, split>>
placing == <<placement, request, overlapped>>
placementVars == <<heartbeat, placing, ending, late>>

Kinds == {"periodic", "last"}
NoReport == [stage |-> "none", draining |-> FALSE]
Heartbeat(draining_) == [draining |-> draining_, age |-> 0]
Unheard == [draining |-> FALSE, age |-> StaleAfter + 1]
NoRequest == [step |-> "idle"]

PlacementInit ==
  /\ scene \in Scenes
  /\ node = [n \in MediaNodes |-> "up"]
  /\ reports = [n \in MediaNodes |->
                  [periodic |-> NoReport, last |-> NoReport]]
  /\ registry = [n \in MediaNodes |-> Heartbeat(FALSE)]
  /\ rows = [n \in MediaNodes |-> Heartbeat(FALSE)]
  /\ placement = [r \in Rooms |-> {}]
  /\ request = [q \in Requests |-> NoRequest]
  /\ ending = [r \in Rooms |-> "no"]
  /\ told = {}
  /\ overtaken = {}
  /\ split = {}
  /\ overlapped = {}
  /\ late = {}

-----------------------------------------------------------------------------
(* Heartbeats.                                                             *)

\* run: the next periodic report.  A report takes draining when it is made.
Report(n) ==
  /\ n \in scene.unsteady
  /\ node[n] # "down"
  /\ reports[n].periodic = NoReport
  /\ reports' = [reports EXCEPT ![n].periodic =
                   [stage |-> "sent", draining |-> node[n] = "draining"]]
  /\ UNCHANGED <<scene, node, registry, rows, told, overtaken, split, placing,
                 ending, late>>

\* stop_heartbeat: mark_draining and one more report.
StopHeartbeat(n) ==
  /\ n \in scene.unsteady
  /\ node[n] = "up"
  /\ node' = [node EXCEPT ![n] = "draining"]
  /\ reports' = [reports EXCEPT ![n].last =
                   [stage |-> "sent", draining |-> TRUE]]
  /\ UNCHANGED <<scene, registry, rows, told, overtaken, split, placing,
                 ending, late>>

\* A node is gone; what it sent may still arrive.
Die(n) ==
  /\ n \in scene.unsteady
  /\ node[n] # "down"
  /\ node' = [node EXCEPT ![n] = "down"]
  /\ UNCHANGED <<scene, reports, registry, rows, told, overtaken, split,
                 placing, ending, late>>

\* StatusRegistry::upsert, the first half of the heartbeat handler.
RegistryUpsert(n, kind) ==
  /\ reports[n][kind].stage = "sent"
  /\ registry' = [registry EXCEPT ![n] = Heartbeat(reports[n][kind].draining)]
  /\ reports' = [reports EXCEPT ![n][kind].stage = "noted"]
  /\ UNCHANGED <<scene, node, rows, told, overtaken, split, placing,
                 ending, late>>

Locked(n) == \E q \in Requests : request[q].step = "locked"
                                   /\ request[q].node = n

Other(kind) == IF kind = "last" THEN "periodic" ELSE "last"

\* Mutant of UpsertMediaNode: a report never takes draining back nor sets it.
UpsertHealthOnly(n, kind) == rows' = [rows EXCEPT ![n].age = 0]

\* upsert_media_node: the row becomes what the report says, its age anew.
UpsertMediaNode(n, kind) ==
  rows' = [rows EXCEPT ![n] = Heartbeat(reports[n][kind].draining)]

\* The second half of the handler; it waits for the lock of the row.
StoreReport(n, kind) ==
  /\ reports[n][kind].stage = "noted"
  /\ ~Locked(n)
  /\ UpsertMediaNode(n, kind)
  /\ reports' = [reports EXCEPT ![n][kind] = NoReport]
  /\ told' = IF reports[n][kind].draining THEN told \cup {n} ELSE told
  /\ overtaken' =
       IF reports[n][kind].draining
            /\ reports[n][Other(kind)].stage # "none"
            /\ ~reports[n][Other(kind)].draining
       THEN overtaken \cup {n} ELSE overtaken
  /\ split' = IF reports[n][Other(kind)].stage = "noted"
              THEN split \cup {n} ELSE split
  /\ UNCHANGED <<scene, node, registry, placing, ending, late>>

\* The request or the answer is lost, or the store fails.
LoseReport(n, kind) ==
  /\ reports[n][kind].stage # "none"
  /\ reports' = [reports EXCEPT ![n][kind] = NoReport]
  /\ split' = IF reports[n][kind].stage = "noted"
              THEN split \cup {n} ELSE split
  /\ UNCHANGED <<scene, node, registry, rows, told, overtaken, placing, ending,
                 late>>

Older(record) == [record EXCEPT !.age = IF @ > StaleAfter THEN @ ELSE @ + 1]

\* A heartbeat interval passes.  A report that is being handled does not
\* last that long: the client gives up after three of the five seconds.
Interval(n) ==
  /\ n \in scene.unsteady
  /\ rows[n].age <= StaleAfter \/ registry[n].age <= StaleAfter
  /\ \A kind \in Kinds : reports[n][kind].stage # "noted"
  /\ rows' = [rows EXCEPT ![n] = Older(@)]
  /\ registry' = [registry EXCEPT ![n] = Older(@)]
  /\ UNCHANGED <<scene, node, reports, told, overtaken, split, placing, ending,
                 late>>

\* StatusRegistry::snapshot: the nodes the platform status shows as
\* available.
Available ==
  {n \in MediaNodes : registry[n].age <= StaleAfter /\ ~registry[n].draining}

-----------------------------------------------------------------------------
(* place_room.                                                             *)

\* The conditions on a node's row in both queries.
Serves(n) == ~rows[n].draining /\ rows[n].age < StaleAfter

RoomsAt(n) == {r \in Rooms : n \in placement[r]}

Eligible(n) == Serves(n) /\ Cardinality(RoomsAt(n)) < Limit

\* ORDER BY: the least loaded first, then by node_id.
Ranked ==
  SetToSortSeq({n \in MediaNodes : Eligible(n)},
               LAMBDA m, n :
                 \/ Cardinality(RoomsAt(m)) < Cardinality(RoomsAt(n))
                 \/ Cardinality(RoomsAt(m)) = Cardinality(RoomsAt(n)) /\ m < n)

\* media_control_endpoint for a request about a room, or for the cleaning up
\* of an ended one.  load_healthy_placement: there is a placement already.
FindPlacement(q, r) ==
  /\ request[q].step = "idle"
  /\ \E n \in placement[r] : Serves(n)
  /\ ending' = [ending EXCEPT ![r] = IF @ = "cleaning" THEN "clean" ELSE @]
  /\ UNCHANGED <<heartbeat, placing, late>>

\* There is none: select_media_node reads the nodes and the placements.
ReadNodes(q, r) ==
  /\ r \in scene.rooms /\ request[q].step = "idle"
  /\ ending[r] \in {"no", "cleaning", "done"}
  /\ ~\E n \in placement[r] : Serves(n)
  /\ request' = [request EXCEPT ![q] =
                   [step |-> "read", room |-> r, ranked |-> Ranked,
                    since |-> {}, cleans |-> ending[r] = "cleaning"]]
  /\ ending' = [ending EXCEPT ![r] = IF @ = "cleaning" THEN "waiting" ELSE @]
  /\ late' = IF ending[r] = "done" THEN late \cup {r} ELSE late
  /\ UNCHANGED <<heartbeat, placement, overlapped>>

Cleaned(q) ==
  ending' = [ending EXCEPT ![request[q].room] =
               IF request[q].cleans THEN "clean" ELSE @]

\* Mutant of Takes: the row is not read again under its lock.
TakesAsRead(q, n) == ~Locked(n)

\* FOR UPDATE OF node SKIP LOCKED: a row that is locked is passed over, and
\* one that was written since is judged by what it says now.
Takes(q, n) == ~Locked(n) /\ Serves(n)

\* LIMIT 1: the lock of the first row in the order that can be taken.
LockNode(q) ==
  LET ranked == request[q].ranked
      taken == {i \in DOMAIN ranked : Takes(q, ranked[i])} IN
  /\ request[q].step = "read"
  /\ taken # {}
  /\ request' =
       [request EXCEPT ![q] =
          [step |-> "locked", room |-> @.room, since |-> @.since,
           node |-> ranked[CHOOSE i \in taken : \A j \in taken : i <= j],
           cleans |-> @.cleans]]
  /\ UNCHANGED <<heartbeat, placement, overlapped, ending,
                 late>>

\* NoMediaNodeCapacity.
NoCapacity(q) ==
  /\ request[q].step = "read"
  /\ \A i \in DOMAIN request[q].ranked : ~Takes(q, request[q].ranked[i])
  /\ request' = [request EXCEPT ![q] = NoRequest]
  /\ Cleaned(q)
  /\ UNCHANGED <<heartbeat, placement, overlapped, late>>

\* The other transactions under way have not seen the placement on n.
Unseen(q, n) ==
  [o \in Requests |->
     IF o = q THEN NoRequest
     ELSE IF request[o].step = "idle" THEN request[o]
     ELSE [request[o] EXCEPT !.since = @ \cup {n}]]

\* INSERT ... ON CONFLICT DO UPDATE.
Assigned(r, n) == [placement EXCEPT ![r] = {n}]

\* The placement is written, and committed.
WritePlacement(q) ==
  LET r == request[q].room
      n == request[q].node IN
  /\ request[q].step = "locked"
  /\ placement' = Assigned(r, n)
  /\ request' = Unseen(q, n)
  /\ overlapped' = IF n \in request[q].since
                   THEN overlapped \cup {n} ELSE overlapped
  /\ Cleaned(q)
  /\ UNCHANGED <<heartbeat, late>>

-----------------------------------------------------------------------------
(* end_room, after the command: cleanup_room_media, whose deletions ask    *)
(* for the room's node, and remove_room_placement.                         *)

EndRoom(r) ==
  /\ r \in scene.ends
  /\ ending[r] = "no"
  /\ ending' = [ending EXCEPT ![r] = "cleaning"]
  /\ UNCHANGED <<heartbeat, placing, late>>

RemoveRoomPlacement(r) ==
  /\ ending[r] = "clean"
  /\ ending' = [ending EXCEPT ![r] = "done"]
  /\ placement' = [placement EXCEPT ![r] = {}]
  /\ late' = IF \E q \in Requests : request[q].step # "idle"
                                      /\ request[q].room = r
             THEN late \cup {r} ELSE late
  /\ UNCHANGED <<heartbeat, request, overlapped>>

PlacementNext ==
  \/ \E n \in MediaNodes :
       \/ Report(n) \/ StopHeartbeat(n) \/ Die(n) \/ Interval(n)
       \/ \E kind \in Kinds :
            RegistryUpsert(n, kind) \/ StoreReport(n, kind)
              \/ LoseReport(n, kind)
  \/ \E q \in Requests :
       \/ LockNode(q) \/ NoCapacity(q) \/ WritePlacement(q)
       \/ \E r \in Rooms : FindPlacement(q, r) \/ ReadNodes(q, r)
  \/ \E r \in Rooms : EndRoom(r) \/ RemoveRoomPlacement(r)

PlacementSpec == PlacementInit /\ [][PlacementNext]_placementVars

-----------------------------------------------------------------------------

Record == [draining : BOOLEAN, age : 0 .. StaleAfter + 1]

\* Types; a room has at most one placement.
PlacementTypeOK ==
  /\ node \in [MediaNodes -> {"up", "draining", "down"}]
  /\ registry \in [MediaNodes -> Record]
  /\ rows \in [MediaNodes -> Record]
  /\ \A r \in Rooms :
       placement[r] \subseteq MediaNodes /\ Cardinality(placement[r]) <= 1
  /\ overtaken \subseteq told

\* A node that was told its draining is known gets no room any more, though
\* a transaction may have read its row long before: the row is read again
\* under the lock, and the report waits for a transaction that has it.  Not
\* so when a report from before the draining was still under way, and is
\* written after it.
DrainedGetsNoRooms ==
  [][\A r \in Rooms : \A n \in placement'[r] \ placement[r] :
       n \notin told \ overtaken]_placementVars

\* A node has no more rooms than its limit, however the transactions that
\* place them interleave, except a node that was taken on a count from
\* before another placement was written there.
LimitIsKept ==
  \A n \in MediaNodes \ overlapped : Cardinality(RoomsAt(n)) <= Limit

\* control-store lib.rs, place_room: "The selected node row is locked so
\* concurrent schedulers cannot overbook from the same placement snapshot."
NeverOverbooked == \A n \in MediaNodes : Cardinality(RoomsAt(n)) <= Limit

\* A room that was ended and cleaned up has no placement left to count
\* against the limit of a node, unless a request came late: any request,
\* the deletion of a session too, places the room again.
EndedRoomsAreUnplaced ==
  \A r \in Rooms \ late : ending[r] = "done" => placement[r] = {}

\* A node that is given rooms is one the platform status shows as
\* available: the status service and the store agree, once the reports under
\* way are done with, unless one was noted and not written, or two were not
\* written in the order they were noted in.
ServingIsAvailable ==
  \A n \in MediaNodes \ split :
    Serves(n) /\ (\A kind \in Kinds : reports[n][kind].stage # "noted")
      => n \in Available

\* Placements, rooms and the health of nodes agree, as far as the store can
\* know.
PlacementsAgree ==
  /\ PlacementTypeOK /\ LimitIsKept /\ EndedRoomsAreUnplaced
  /\ ServingIsAvailable
=============================================================================
