----------------------------- MODULE DownTracks -----------------------------
(***************************************************************************)
(* What a room forwards of one simulcast track, and when it asks the       *)
(* publisher for a keyframe (crates/webrtc/sfu-core/src/{room,down_track}  *)
(* .rs, crates/services/media-node/src/{sfu_runtime,main}.rs).             *)
(*                                                                         *)
(* Every subscription is a down-track with a target layer and a selected   *)
(* one.  A packet of the publisher is offered to the down-tracks in the    *)
(* order of subscription; a video down-track moves to its target at the    *)
(* first packet of a keyframe of that layer, and until then the room sends *)
(* picture loss indications (PLIs), throttled for each encoding.  The      *)
(* header extensions of a forwarded packet are rewritten last: a packet    *)
(* without any cannot be rewritten, and the error ends the routing of the  *)
(* packet for everyone.  Timestamps and numbers: see Timestamps and        *)
(* SrtpStream.                                                             *)
(***************************************************************************)
EXTENDS Integers, Sequences, FiniteSets

CONSTANTS
  Subs,        \* subscriptions of the track
  Layers,      \* spatial layers the track was published with
  Targets,     \* layers a subscriber may name: spatial and temporal
  Rtps,        \* packets of the publisher: whether one starts a keyframe,
               \* its temporal layer, whether it is bare of extensions
  Scenes,      \* what a track may be like: its kind, the layers the
               \* publisher sends, the subscriptions in their order, the
               \* ones that rewrite
  Throttle,    \* pli_throttle, in ticks
  MaxChanges   \* bound: layer changes and new subscriptions

ASSUME DownAssumption ==
  /\ Throttle \in Nat
  /\ Targets \subseteq [spatial : Nat, temporal : Nat]
  /\ Rtps \subseteq [starts : BOOLEAN, temporal : Nat, bare : BOOLEAN]
  /\ Scenes \subseteq [video : BOOLEAN, active : SUBSET Layers,
                       subscribed : Seq(Subs), rewriting : SUBSET Subs]

VARIABLES
  scene,      \* the MediaKind of the track (video), the layers sent
              \* (active), the subscriptions with extension_rewrites
  consumers,  \* track_subscriptions: the order packets are offered in
  order,      \* the iteration order of the map of subscriptions
  target,     \* target_layer of every down-track
  selected,   \* selected_spatial
  wait,       \* ticks until the encoding of a layer may be sent a PLI again
  asked,      \* layers with a PLI on its way to the publisher
  owed,       \* layers of which the publisher encodes a keyframe next
  changes,    \* layer changes and new subscriptions so far
  keyed,      \* history: layer of the last keyframe sent to a subscriber
  spoiled     \* history: down-tracks that moved at a packet never sent

tracks == <<target, selected, consumers, order, changes>>
downVars == <<scene, tracks, wait, asked, owed, keyed, spoiled>>

video == scene.video
Sent == scene.active
rewriting == scene.rewriting

None == -1
Orders == {o \in [1 .. Cardinality(Subs) -> Subs] :
             \A i, j \in DOMAIN o : o[i] = o[j] => i = j}

\* DownTrack::new for every subscription: subscribe accepts only a layer of
\* the track.
DownInit ==
  /\ scene \in Scenes
  /\ consumers = scene.subscribed /\ order \in Orders
  /\ target \in [Subs -> {t \in Targets :
                          t.spatial \in Layers /\ t.temporal = 0}]
  /\ selected = [s \in Subs |-> None]
  /\ wait = [l \in Layers |-> 0]
  /\ asked = {} /\ owed = {} /\ changes = 0
  /\ keyed = [s \in Subs |-> None] /\ spoiled = {}

-----------------------------------------------------------------------------
(* Keyframe requests.                                                      *)

\* Mutant of MaybePli: the request is remembered and not sent.
MaybePliSilent(layers) ==
  /\ wait' = [l \in Layers |->
                IF l \in layers /\ wait[l] = 0 THEN Throttle ELSE wait[l]]
  /\ UNCHANGED asked

\* maybe_pli and events_to_rtcp, for the encoding of at most one layer.
MaybePli(layers) ==
  LET due == {l \in layers : wait[l] = 0}
  IN  /\ wait' = [l \in Layers |-> IF l \in due THEN Throttle ELSE wait[l]]
      /\ asked' = asked \cup due

\* The layer of the room's request when some down-track waits: the target
\* of the first subscription that has not reached its own, if the track has
\* that layer.
Wanted(chosen) ==
  LET late == SelectSeq(order, LAMBDA s : chosen[s] # target[s].spatial)
  IN  IF late = <<>> THEN {} ELSE {target[Head(late)].spatial} \cap Layers

\* request_keyframe, for a recorder or transcoder just attached: a layer of
\* its choice or the highest, whatever the throttle says.
RequestKeyframe(l) ==
  /\ video
  /\ asked' = asked \cup {l}
  /\ UNCHANGED <<scene, tracks, wait, owed, keyed, spoiled>>

\* handle_rtcp with a picture loss indication of a subscriber.
HandlePli(s) ==
  LET spatial == IF selected[s] # None THEN selected[s]
                 ELSE target[s].spatial
  IN  /\ MaybePli({spatial} \cap Layers)
      /\ UNCHANGED <<scene, tracks, owed, keyed, spoiled>>

-----------------------------------------------------------------------------
(* Layers.                                                                 *)

\* Room::set_target_layer: the target is kept even when the track has no
\* such layer and the caller is told so.
SetTargetLayer(s, layer) ==
  /\ changes < MaxChanges /\ layer # target[s]
  /\ changes' = changes + 1
  /\ target' = [target EXCEPT ![s] = layer]
  /\ MaybePli(IF video THEN {layer.spatial} \cap Layers ELSE {})
  /\ UNCHANGED <<scene, selected, consumers, order, owed, keyed, spoiled>>

\* unsubscribe and subscribe: a new down-track, offered packets last.
Renew(s, layer) ==
  /\ changes < MaxChanges /\ layer.spatial \in Layers
  /\ changes' = changes + 1
  /\ target' = [target EXCEPT ![s] = layer]
  /\ selected' = [selected EXCEPT ![s] = None]
  /\ consumers' = Append(SelectSeq(consumers, LAMBDA t : t # s), s)
  /\ order' \in Orders
  /\ keyed' = [keyed EXCEPT ![s] = None]
  /\ spoiled' = spoiled \ {s}
  /\ UNCHANGED <<scene, wait, asked, owed>>

-----------------------------------------------------------------------------
(* Forwarding.                                                             *)

\* Mutant of Decision: a switch does not wait for a keyframe.
DecisionAtOnce(s, l, packet) ==
  IF selected[s] # l /\ l # target[s].spatial
    THEN IF selected[s] # target[s].spatial THEN "wait" ELSE "drop"
    ELSE IF packet.temporal > target[s].temporal THEN "drop" ELSE "forward"

\* DownTrack::forward, up to the rewriting of the packet.
Decision(s, l, packet) ==
  LET continuing == selected[s] = l
      switching == ~continuing /\ l = target[s].spatial
  IN  CASE ~continuing /\ ~switching ->
             IF selected[s] # target[s].spatial THEN "wait" ELSE "drop"
        [] video /\ switching /\ ~packet.starts -> "wait"
        [] (continuing \/ ~video \/ packet.starts)
             /\ (continuing \/ switching) ->
             IF packet.temporal > target[s].temporal THEN "drop"
                                                     ELSE "forward"

\* rewrite_header_extensions fails.
Fails(s, l, packet) ==
  packet.bare /\ s \in rewriting /\ Decision(s, l, packet) = "forward"

\* The down-tracks that the routing of a packet reaches: all, or those up to
\* the first failure.
Reached(l, packet) ==
  {consumers[i] : i \in {j \in DOMAIN consumers :
     \A k \in 1 .. j - 1 : ~Fails(consumers[k], l, packet)}}

Takers(l, packet) ==
  {s \in Reached(l, packet) : Decision(s, l, packet) = "forward"}

\* The subscribers that SfuRegistry::handle_rtp has a route for: none when
\* the room returned an error.
Served(l, packet) ==
  {s \in Takers(l, packet) :
     \A t \in Reached(l, packet) : ~Fails(t, l, packet)}

\* handle_rtp of the room.
HandleRtp(l, packet) ==
  LET takers == Takers(l, packet)
      served == Served(l, packet)
      failed == takers # {} /\ served = {}
      waiting == \E s \in Reached(l, packet) :
                   Decision(s, l, packet) = "wait"
      chosen == [s \in Subs |-> IF s \in takers THEN l ELSE selected[s]]
      lost == {s \in takers \ served : selected[s] # l}
  IN  /\ l \in Sent /\ l \in owed => packet.starts
      /\ selected' = chosen
      /\ MaybePli(IF waiting /\ ~failed THEN Wanted(chosen) ELSE {})
      /\ owed' = IF packet.starts THEN owed \ {l} ELSE owed
      /\ keyed' = [s \in Subs |-> IF s \in served /\ packet.starts
                                    THEN l ELSE keyed[s]]
      /\ spoiled' = IF packet.starts THEN (spoiled \ served) \cup lost
                                     ELSE spoiled
      /\ UNCHANGED <<scene, target, consumers, order, changes>>

-----------------------------------------------------------------------------
(* The publisher and the clock.                                            *)

\* The publisher is given a PLI: it encodes a keyframe if it sends the layer.
PublisherHears(l) ==
  /\ l \in asked
  /\ asked' = asked \ {l}
  /\ owed' = IF l \in Sent THEN owed \cup {l} ELSE owed
  /\ UNCHANGED <<scene, tracks, wait, keyed, spoiled>>

\* A PLI is lost on its way.
PliIsLost(l) ==
  /\ l \in asked
  /\ asked' = asked \ {l}
  /\ UNCHANGED <<scene, tracks, wait, owed, keyed, spoiled>>

PliTick ==
  /\ \E l \in Layers : wait[l] > 0
  /\ wait' = [l \in Layers |-> IF wait[l] > 0 THEN wait[l] - 1 ELSE 0]
  /\ UNCHANGED <<scene, tracks, asked, owed, keyed, spoiled>>

DownNext ==
  \/ \E l \in Layers : \/ \E packet \in Rtps : HandleRtp(l, packet)
                       \/ RequestKeyframe(l)
                       \/ PublisherHears(l) \/ PliIsLost(l)
  \/ \E s \in Subs : \/ HandlePli(s)
                     \/ \E t \in Targets : SetTargetLayer(s, t) \/ Renew(s, t)
  \/ PliTick

\* The publisher keeps sending the layers it sends; of the PLIs sent again
\* and again one arrives, and of the keyframes they bring not all are
\* without extensions.
DownFairness ==
  /\ \A l \in Layers :
       /\ WF_downVars(\E packet \in Rtps :
                        ~packet.bare /\ packet.temporal = 0
                        /\ HandleRtp(l, packet))
       /\ SF_downVars(l \in owed /\ \E packet \in Rtps :
                        ~packet.bare /\ HandleRtp(l, packet))
       /\ SF_downVars(PublisherHears(l))
  /\ WF_downVars(PliTick)

DownSpec == DownInit /\ [][DownNext]_downVars /\ DownFairness

-----------------------------------------------------------------------------
(* Properties.                                                             *)

DownTypeOK ==
  /\ consumers \in Orders /\ order \in Orders
  /\ target \in [Subs -> Targets]
  /\ selected \in [Subs -> Layers \cup {None}]
  /\ wait \in [Layers -> 0 .. Throttle]
  /\ asked \subseteq Layers /\ owed \subseteq Sent
  /\ changes \in 0 .. MaxChanges
  /\ keyed \in [Subs -> Layers \cup {None}] /\ spoiled \subseteq Subs

\* A video subscriber is sent packets of one layer from a keyframe of that
\* layer on ("Video switches commit only on a target-encoding keyframe."),
\* however targets, subscriptions and packets alternate.  The exception is
\* a down-track that moved while routing the keyframe failed further on:
\* the keyframe was not sent, and the packets after it are.
SwitchesAreDecodable ==
  video => \A s \in Subs \ spoiled :
             selected[s] # None => keyed[s] = selected[s]

Behind(s) == selected[s] # target[s].spatial

\* A subscription aimed at a layer that is being sent is brought there:
\* PLIs are repeated until a keyframe comes (handle_rtp, maybe_pli).  Not
\* so while another subscription is aimed at a layer that is not sent: the
\* room asks for one layer at a time, and may ask for that one for ever.
WaitingIsServed ==
  \A s \in Subs :
    []<>(\/ ~Behind(s) \/ target[s].spatial \notin Sent
         \/ \E other \in Subs : Behind(other)
                                /\ target[other].spatial \notin Sent)

\* Every subscriber can decode what it is sent, and the down-tracks keep their
\* shape, at most one for a subscription.
SubscribersCanDecode ==
  /\ DownTypeOK /\ SwitchesAreDecodable
=============================================================================
