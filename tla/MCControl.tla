----------------------------- MODULE MCControl ------------------------------
(* What a room consists of, side by side: its commands on several replicas,*)
(* its place on a media node and that of its encoder, the protocol         *)
(* sessions of a participant, and the room inside the media node with its  *)
(* data channels.  A behaviour is one of one of these; the rest stays as   *)
(* it began.                                                               *)
EXTENDS RoomCommands, ProtocolSessions, RoomPlacement, TranscodePlacement,
        SfuRoom, RoomData, TLC

CONSTANTS u1, k0, k1, k2, k3, g1, g2, r1, r2, w1, w2, n1, n2, h1, h2,
          x1, x2, y1, y2, o1

\* One handler on each replica; they share a key.
TwoHomes == w1 :> r1 @@ w2 :> r2
SharedKey == w1 :> {k1, k3} @@ w2 :> {k2, k3}

\* Three gifts, two of them the same transaction under different keys, with
\* histories that remember a single command and a single gift.
Gift(tx) == [type |-> "gift", user |-> u1, target |-> u1, tx |-> tx,
             valid |-> TRUE]
Gifts == k0 :> Gift(g1) @@ k1 :> Gift(g1) @@ k2 :> Gift(g1) @@ k3 :> Gift(g2)

\* A node that is drained and whose reports overtake each other, with one
\* room; two rooms that end, on steady nodes.
PlacementScenes ==
  {[unsteady |-> {1}, rooms |-> {"a"}, ends |-> {}],
   [unsteady |-> {}, rooms |-> Rooms, ends |-> Rooms]}

Bare(op_) == [op |-> op_]
OnStream(op_, st) == [op |-> op_, stream |-> st]
Dcep(st, l) == [op |-> "open", stream |-> st, label |-> l]

\* One peer opens two streams, and closes them; a packet holds a chunk, an
\* OPEN with a first message, or a failure after an OPEN or a reset.  The
\* other talks, in the room and on a channel of its own.
MCPackets ==
  [s \in Sessions |->
    IF s \in Leavers
      THEN {<<Bare("init")>>, <<Bare("cookie")>>, <<Bare("abort")>>,
            <<OnStream("data", 0)>>,
            <<OnStream("close", 0)>>, <<OnStream("close", 2)>>,
            <<Dcep(0, RoomLabel)>>, <<Dcep(2, RoomLabel)>>,
            <<Dcep(0, RoomLabel), OnStream("data", 0)>>,
            <<Dcep(0, RoomLabel), Bare("junk")>>,
            <<OnStream("close", 0), Bare("junk")>>}
      ELSE {<<OnStream("data", 0)>>, <<OnStream("data", 2)>>,
            <<Dcep(2, "other")>>}]

VARIABLE part

Parts == {"commands", "protocol", "placement", "transcode", "sfu", "data"}

Init ==
  /\ part \in Parts
  /\ CommandsInit /\ TranscodeInit /\ SfuInit /\ RoomDataInit
  /\ ProtocolInit /\ (part # "protocol" => nextId = 1)
  /\ PlacementInit /\ (part # "placement" => scene.unsteady = {})

RestStays ==
  /\ UNCHANGED part
  /\ part # "commands" => UNCHANGED commandsVars
  /\ part # "protocol" => UNCHANGED protocolVars
  /\ part # "placement" => UNCHANGED placementVars
  /\ part # "transcode" => UNCHANGED transcodeVars
  /\ part # "sfu" => UNCHANGED sfuVars
  /\ part # "data" => UNCHANGED dataVars

\* The placement of an encoder may be over, the others go on.
Next ==
  \/ part = "commands" /\ CommandsNext /\ RestStays
  \/ part = "protocol" /\ ProtocolNext /\ RestStays
  \/ part = "placement" /\ PlacementNext /\ RestStays
  \/ /\ part = "transcode" /\ (TranscodeNext \/ UNCHANGED transcodeVars)
     /\ RestStays
  \/ part = "sfu" /\ SfuNext /\ RestStays
  \/ part = "data" /\ RoomDataNext /\ RestStays

Spec == /\ Init
        /\ [][Next]_<<commandsVars, protocolVars, placementVars, transcodeVars,
                      sfuVars, dataVars, part>>
=============================================================================
