------------------------------ MODULE MCVideo -------------------------------
(* One live stream of the gateway, or the layers that a room forwards to its*)
(* subscribers: a behaviour is one of the one or of the other, and the rest*)
(* stays as it began.                                                      *)
EXTENDS LiveStreams, DownTracks

CONSTANTS s1, s2

\* Layer 2 is one the track does not have.
MCTargets ==
  {[spatial |-> 0, temporal |-> 0], [spatial |-> 1, temporal |-> 0],
   [spatial |-> 2, temporal |-> 0]}

MCRtps ==
  {[starts |-> TRUE, temporal |-> 0, bare |-> FALSE],
   [starts |-> TRUE, temporal |-> 0, bare |-> TRUE],
   [starts |-> FALSE, temporal |-> 0, bare |-> FALSE],
   [starts |-> FALSE, temporal |-> 1, bare |-> TRUE]}

\* Video with both layers sent and a subscription that rewrites, video with
\* one layer paused, audio, and a track of which nothing is sent.
Scene(video_, active_, rewriting_) ==
  [video |-> video_, active |-> active_, rewriting |-> rewriting_,
   subscribed |-> <<s1, s2>>]

Silent == Scene(TRUE, {}, {})
MCScenes == {Scene(TRUE, {0, 1}, {s2}), Scene(TRUE, {0}, {}),
             Scene(FALSE, {0}, {}), Silent}

VARIABLE part

Init == /\ LiveInit /\ DownInit /\ part \in {"live", "tracks"}
        /\ part # "live" => liveFaults = 0
        /\ (part = "tracks") # (scene = Silent)
        /\ target[s1].spatial = 0
        /\ part # "tracks" \/ ~scene.video =>
             order = scene.subscribed /\ target[s2].spatial = 0

\* A stream may be left as it is.
Next ==
  \/ /\ part = "live" /\ (LiveNext \/ UNCHANGED liveVars)
     /\ UNCHANGED <<downVars, part>>
  \/ part = "tracks" /\ DownNext /\ UNCHANGED <<liveVars, part>>

\* The fairness of each part, while it is the one that runs.
InLive == part = "live"
LiveIsFair ==
  /\ WF_liveVars(InLive /\ PublisherSteps)
  /\ WF_liveVars(InLive /\ SyncSteps("publisher"))

InTracks == part = "tracks"
TracksIsFair ==
  /\ \A l \in Layers :
       /\ WF_downVars(InTracks /\ \E packet \in Rtps :
                        ~packet.bare /\ packet.temporal = 0
                        /\ HandleRtp(l, packet))
       /\ SF_downVars(InTracks /\ l \in owed /\ \E packet \in Rtps :
                        ~packet.bare /\ HandleRtp(l, packet))
       /\ SF_downVars(InTracks /\ PublisherHears(l))
  /\ WF_downVars(InTracks /\ PliTick)

Spec == /\ Init /\ [][Next]_<<liveVars, downVars, part>>
        /\ LiveIsFair /\ TracksIsFair
=============================================================================
