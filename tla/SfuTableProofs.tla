--------------------------- MODULE SfuTableProofs ---------------------------
(***************************************************************************)
(* For any participants, tracks and subscriptions: each operation of the   *)
(* room core and of the runtime around it, alone or with what it calls,    *)
(* keeps the eleven tables of a room in agreement.                         *)
(***************************************************************************)
EXTENDS SfuRoom, TLAPS

TrackRecords == [owner : People, ssrcs : SUBSET Ssrcs]
SubRecords == [who : People, track : Tracks, out : Outs]
Mirrored == [who : People, track : Tracks]

\* The shape of the room core.
Cores ==
  [tracks : [Tracks -> SUBSET TrackRecords],
   ssrcs : [Ssrcs -> SUBSET Tracks],
   subs : [Subs -> SUBSET SubRecords],
   consumers : [Tracks -> SUBSET Subs],
   outs : [Outs -> SUBSET Subs]]

\* The shape of the runtime's own maps.
Mirrors ==
  [bound : SUBSET People,
   owners : [Tracks -> SUBSET People],
   inputs : [Ssrcs -> SUBSET Tracks],
   subs : [Subs -> SUBSET Mirrored],
   congestion : [People -> SUBSET SUBSET Subs]]

\* An entry of a map is there or not.
Single(S) == \A x, y \in S : x = y

\* The tracks and the subscriptions are the maps of the core; its three
\* indices follow from them.
CoreAgrees(c) ==
  /\ \A t \in Tracks : Single(c.tracks[t])
  /\ \A d \in Subs : Single(c.subs[d])
  /\ \A s \in Ssrcs : \A t \in Tracks :
       t \in c.ssrcs[s] <=> \E x \in c.tracks[t] : s \in x.ssrcs
  /\ \A t \in Tracks : \A d \in Subs :
       d \in c.consumers[t] <=> \E x \in c.subs[d] : x.track = t
  /\ \A o \in Outs : \A d \in Subs :
       d \in c.outs[o] <=> \E x \in c.subs[d] : x.out = o
  /\ \A d \in Subs : \A x \in c.subs[d] : c.tracks[x.track] # {}

\* The mirror of the core.
MirrorAgrees(c, m) ==
  /\ \A t \in Tracks : \A p \in People :
       p \in m.owners[t] <=> \E x \in c.tracks[t] : x.owner = p
  /\ m.inputs = c.ssrcs
  /\ \A d \in Subs : \A y \in Mirrored :
       y \in m.subs[d] <=> \E x \in c.subs[d] : /\ x.who = y.who
                                                /\ x.track = y.track
  /\ \A p \in People : \A k \in m.congestion[p] : \A d \in k :
       \E x \in c.subs[d] : x.who = p

\* Whoever has something in the room is bound to it.
Bounded(c, m) ==
  /\ \A t \in Tracks : \A x \in c.tracks[t] : x.owner \in m.bound
  /\ \A d \in Subs : \A x \in c.subs[d] : x.who \in m.bound
  /\ \A p \in People : p \notin m.bound => m.congestion[p] = {}

Sound(c, m) ==
  /\ c \in Cores /\ m \in Mirrors
  /\ CoreAgrees(c) /\ MirrorAgrees(c, m) /\ Bounded(c, m)

-----------------------------------------------------------------------------
(* Subscriptions that leave.                                               *)

\* remove_subscription, field by field.
LEMMA UnsubscribeFields ==
  ASSUME NEW c \in Cores, NEW gone \in SUBSET Subs
  PROVE  /\ CoreUnsubscribes(c, gone) \in Cores
         /\ CoreUnsubscribes(c, gone).tracks = c.tracks
         /\ CoreUnsubscribes(c, gone).ssrcs = c.ssrcs
         /\ \A d \in Subs : CoreUnsubscribes(c, gone).subs[d]
                              = IF d \in gone THEN {} ELSE c.subs[d]
         /\ \A o \in Outs : CoreUnsubscribes(c, gone).outs[o]
                              = c.outs[o] \ gone
         /\ \A t \in Tracks : CoreUnsubscribes(c, gone).consumers[t]
                              = c.consumers[t] \ gone
<1> DEFINE subs == [d \in Subs |-> IF d \in gone THEN {} ELSE c.subs[d]]
           outs == [o \in Outs |-> c.outs[o] \ gone]
           consumers == [t \in Tracks |-> c.consumers[t] \ gone]
<1>1. /\ subs \in [Subs -> SUBSET SubRecords]
      /\ outs \in [Outs -> SUBSET Subs]
      /\ consumers \in [Tracks -> SUBSET Subs]
  BY DEF Cores
<1>2. CoreUnsubscribes(c, gone) =
        [c EXCEPT !.subs = subs, !.outs = outs, !.consumers = consumers]
  BY DEF CoreUnsubscribes, Cores
<1>3. /\ \A d \in Subs : subs[d] = IF d \in gone THEN {} ELSE c.subs[d]
      /\ \A o \in Outs : outs[o] = c.outs[o] \ gone
      /\ \A t \in Tracks : consumers[t] = c.consumers[t] \ gone
  OBVIOUS
<1> HIDE DEF subs, outs, consumers
<1>4. /\ CoreUnsubscribes(c, gone) \in Cores
      /\ CoreUnsubscribes(c, gone).tracks = c.tracks
      /\ CoreUnsubscribes(c, gone).ssrcs = c.ssrcs
      /\ CoreUnsubscribes(c, gone).subs = subs
      /\ CoreUnsubscribes(c, gone).outs = outs
      /\ CoreUnsubscribes(c, gone).consumers = consumers
  BY <1>1, <1>2, Zenon DEF Cores
<1> QED
  BY <1>3, <1>4

\* The mirror forgets them, field by field.
LEMMA ForgetFields ==
  ASSUME NEW m \in Mirrors, NEW gone \in SUBSET Subs
  PROVE  /\ Forget(m, gone) \in Mirrors
         /\ Forget(m, gone).bound = m.bound
         /\ Forget(m, gone).owners = m.owners
         /\ Forget(m, gone).inputs = m.inputs
         /\ \A d \in Subs : Forget(m, gone).subs[d]
                              = IF d \in gone THEN {} ELSE m.subs[d]
         /\ \A p \in People : Forget(m, gone).congestion[p]
                              = {k \ gone : k \in m.congestion[p]}
<1> DEFINE subs == [d \in Subs |-> IF d \in gone THEN {} ELSE m.subs[d]]
           congestion == [p \in People |-> {k \ gone : k \in m.congestion[p]}]
<1>1. /\ subs \in [Subs -> SUBSET Mirrored]
      /\ congestion \in [People -> SUBSET SUBSET Subs]
  BY DEF Mirrors
<1>2. Forget(m, gone) = [m EXCEPT !.subs = subs, !.congestion = congestion]
  BY DEF Forget, Mirrors
<1>3. /\ \A d \in Subs : subs[d] = IF d \in gone THEN {} ELSE m.subs[d]
      /\ \A p \in People : congestion[p] = {k \ gone : k \in m.congestion[p]}
  OBVIOUS
<1> HIDE DEF subs, congestion
<1>4. /\ Forget(m, gone) \in Mirrors /\ Forget(m, gone).bound = m.bound
      /\ Forget(m, gone).owners = m.owners
      /\ Forget(m, gone).inputs = m.inputs /\ Forget(m, gone).subs = subs
      /\ Forget(m, gone).congestion = congestion
  BY <1>1, <1>2, Zenon DEF Mirrors
<1> QED
  BY <1>3, <1>4

\* Subscriptions leave the core and the mirror together.
LEMMA SubscriptionsLeave ==
  ASSUME NEW c, NEW m, Sound(c, m), NEW gone \in SUBSET Subs
  PROVE  Sound(CoreUnsubscribes(c, gone), Forget(m, gone))
<1> DEFINE c2 == CoreUnsubscribes(c, gone)
           m2 == Forget(m, gone)
<1>1. c \in Cores /\ m \in Mirrors
  BY DEF Sound
<1>2. /\ c2 \in Cores /\ c2.tracks = c.tracks /\ c2.ssrcs = c.ssrcs
      /\ \A d \in Subs : c2.subs[d] = IF d \in gone THEN {} ELSE c.subs[d]
      /\ \A o \in Outs : c2.outs[o] = c.outs[o] \ gone
      /\ \A t \in Tracks : c2.consumers[t] = c.consumers[t] \ gone
  BY <1>1, UnsubscribeFields
<1>3. /\ m2 \in Mirrors /\ m2.bound = m.bound /\ m2.owners = m.owners
      /\ m2.inputs = m.inputs
      /\ \A d \in Subs : m2.subs[d] = IF d \in gone THEN {} ELSE m.subs[d]
      /\ \A p \in People : m2.congestion[p]
                             = {k \ gone : k \in m.congestion[p]}
  BY <1>1, ForgetFields
<1> HIDE DEF c2, m2
<1>4. CoreAgrees(c) /\ MirrorAgrees(c, m) /\ Bounded(c, m)
  BY DEF Sound
<1>5. CoreAgrees(c2)
  BY <1>2, <1>4 DEF CoreAgrees, Single
<1>6. MirrorAgrees(c2, m2)
  <2>1. ASSUME NEW p \in People, NEW k \in m2.congestion[p], NEW d \in k
        PROVE  \E x \in c2.subs[d] : x.who = p
    <3>1. PICK j \in m.congestion[p] : k = j \ gone
      BY <1>3, <2>1
    <3>2. d \in j /\ d \notin gone /\ d \in Subs
      BY <1>1, <2>1, <3>1 DEF Mirrors
    <3> QED
      BY <1>2, <1>4, <3>1, <3>2 DEF MirrorAgrees
  <2> QED
    BY <1>2, <1>3, <1>4, <2>1 DEF MirrorAgrees
<1>7. Bounded(c2, m2)
  BY <1>2, <1>3, <1>4 DEF Bounded
<1> QED
  BY <1>2, <1>3, <1>5, <1>6, <1>7 DEF Sound, c2, m2

-----------------------------------------------------------------------------
(* Tracks that leave.                                                      *)

\* Room::unpublish, field by field: the tracks that go, with the
\* subscriptions to them.
SubscribersOf(c, gone) == UNION {c.consumers[t] : t \in gone}

Unpublished(c, gone, u) ==
  LET r == CoreUnsubscribes(c, SubscribersOf(c, gone))
  IN  /\ u \in Cores
      /\ \A t \in Tracks : u.tracks[t] = IF t \in gone THEN {} ELSE c.tracks[t]
      /\ \A s \in Ssrcs : u.ssrcs[s] = c.ssrcs[s] \ gone
      /\ u.subs = r.subs /\ u.outs = r.outs /\ u.consumers = r.consumers

LEMMA UnpublishFields ==
  ASSUME NEW c \in Cores, NEW gone \in SUBSET Tracks
  PROVE  /\ SubscribersOf(c, gone) \in SUBSET Subs
         /\ Unpublished(c, gone, CoreUnpublishes(c, gone))
<1> DEFINE off == SubscribersOf(c, gone)
           r == CoreUnsubscribes(c, off)
           tracks == [t \in Tracks |-> IF t \in gone THEN {} ELSE r.tracks[t]]
           ssrcs == [s \in Ssrcs |-> r.ssrcs[s] \ gone]
<1>1. off \in SUBSET Subs
  BY DEF Cores, SubscribersOf
<1> HIDE DEF off
<1>2. r \in Cores /\ r.tracks = c.tracks /\ r.ssrcs = c.ssrcs
  BY <1>1, UnsubscribeFields
<1>3. CoreUnpublishes(c, gone) = [r EXCEPT !.tracks = tracks, !.ssrcs = ssrcs]
  <2> HIDE DEF r
  <2>1. [r EXCEPT !.tracks = tracks, !.ssrcs = ssrcs] =
          [r EXCEPT
             !.tracks = [t \in Tracks |-> IF t \in gone THEN {} ELSE @[t]],
             !.ssrcs = [s \in Ssrcs |-> @[s] \ gone]]
    BY <1>2 DEF Cores
  <2> QED
    BY <2>1 DEF CoreUnpublishes, r, off, SubscribersOf
<1> HIDE DEF r
<1>4. /\ tracks \in [Tracks -> SUBSET TrackRecords]
      /\ ssrcs \in [Ssrcs -> SUBSET Tracks]
      /\ \A t \in Tracks : tracks[t] = IF t \in gone THEN {} ELSE c.tracks[t]
      /\ \A s \in Ssrcs : ssrcs[s] = c.ssrcs[s] \ gone
  BY <1>2 DEF Cores
<1> HIDE DEF tracks, ssrcs
<1> DEFINE u == CoreUnpublishes(c, gone)
<1>5. /\ u \in Cores /\ u.tracks = tracks /\ u.ssrcs = ssrcs
      /\ u.subs = r.subs /\ u.outs = r.outs /\ u.consumers = r.consumers
  <2> HIDE DEF u
  <2>1. u = [r EXCEPT !.tracks = tracks, !.ssrcs = ssrcs]
    BY <1>3 DEF u
  <2> QED
    BY <1>2, <1>4, <2>1, Zenon DEF Cores
<1> QED
  BY <1>1, <1>4, <1>5, Zenon DEF r, off, Unpublished

\* Tracks nobody is subscribed to leave the core and the mirror, and so may
\* a participant who has nothing left.
Drops(c, m, gone, c2, m2) ==
  /\ c2 \in Cores /\ m2 \in Mirrors
  /\ \A d \in Subs : \A x \in c.subs[d] : x.track \notin gone
  /\ \A t \in Tracks : c2.tracks[t] = IF t \in gone THEN {} ELSE c.tracks[t]
  /\ \A s \in Ssrcs : c2.ssrcs[s] = c.ssrcs[s] \ gone
  /\ c2.subs = c.subs /\ c2.outs = c.outs /\ c2.consumers = c.consumers
  /\ \A t \in Tracks : m2.owners[t] = IF t \in gone THEN {} ELSE m.owners[t]
  /\ \A s \in Ssrcs : m2.inputs[s] = m.inputs[s] \ gone
  /\ \A d \in Subs : m2.subs[d] = m.subs[d]
  /\ \A p \in People : m2.congestion[p]
                         = IF p \in m2.bound THEN m.congestion[p] ELSE {}
  /\ \A t \in Tracks : \A x \in c2.tracks[t] : x.owner \in m2.bound
  /\ \A d \in Subs : \A x \in c2.subs[d] : x.who \in m2.bound

\* The tables agree after that.
LEMMA TracksGo ==
  ASSUME NEW c, NEW m, NEW c2, NEW m2, Sound(c, m),
         NEW gone \in SUBSET Tracks, Drops(c, m, gone, c2, m2)
  PROVE  Sound(c2, m2)
<1> USE DEF Drops
<1>1. CoreAgrees(c) /\ MirrorAgrees(c, m) /\ c \in Cores /\ m \in Mirrors
  BY DEF Sound
<1>2. CoreAgrees(c2)
  <2>1. \A d \in Subs : \A x \in c.subs[d] : x.track \in Tracks
    BY <1>1 DEF Cores, SubRecords
  <2>2. /\ \A t \in Tracks : Single(c2.tracks[t])
        /\ \A d \in Subs : Single(c2.subs[d])
    BY <1>1 DEF CoreAgrees, Single
  <2>3. \A s \in Ssrcs : \A t \in Tracks :
          t \in c2.ssrcs[s] <=> \E x \in c2.tracks[t] : s \in x.ssrcs
    BY <1>1 DEF CoreAgrees
  <2>4. /\ \A t \in Tracks : \A d \in Subs :
             d \in c2.consumers[t] <=> \E x \in c2.subs[d] : x.track = t
        /\ \A o \in Outs : \A d \in Subs :
             d \in c2.outs[o] <=> \E x \in c2.subs[d] : x.out = o
        /\ \A d \in Subs : \A x \in c2.subs[d] : c2.tracks[x.track] # {}
    BY <1>1, <2>1 DEF CoreAgrees
  <2> QED
    BY <2>2, <2>3, <2>4 DEF CoreAgrees
<1>3. MirrorAgrees(c2, m2)
  <2>1. \A t \in Tracks : \A p \in People :
          p \in m2.owners[t] <=> \E x \in c2.tracks[t] : x.owner = p
    BY <1>1 DEF MirrorAgrees
  <2>2. m2.inputs = c2.ssrcs
    <3>1. m2.inputs \in [Ssrcs -> SUBSET Tracks]
          /\ c2.ssrcs \in [Ssrcs -> SUBSET Tracks]
      BY DEF Cores, Mirrors
    <3>2. m.inputs = c.ssrcs
      BY <1>1 DEF MirrorAgrees
    <3>3. ASSUME NEW s \in Ssrcs
          PROVE  m2.inputs[s] = c2.ssrcs[s]
      <4>1. m2.inputs[s] = m.inputs[s] \ gone
        OBVIOUS
      <4>2. c2.ssrcs[s] = c.ssrcs[s] \ gone
        OBVIOUS
      <4> QED
        BY <3>2, <4>1, <4>2, Zenon
    <3> QED
      BY <3>1, <3>3
  <2>3. \A d \in Subs : \A y \in Mirrored :
          y \in m2.subs[d] <=> \E x \in c2.subs[d] : /\ x.who = y.who
                                                     /\ x.track = y.track
    BY <1>1 DEF MirrorAgrees
  <2>4. ASSUME NEW p \in People, NEW k \in m2.congestion[p], NEW d \in k
        PROVE  \E x \in c2.subs[d] : x.who = p
    <3>1. k \in m.congestion[p]
      BY <2>4
    <3>2. d \in Subs
      BY <1>1, <2>4, <3>1 DEF Mirrors
    <3> QED
      BY <1>1, <2>4, <3>1, <3>2 DEF MirrorAgrees
  <2> QED
    BY <2>1, <2>2, <2>3, <2>4 DEF MirrorAgrees
<1>4. Bounded(c2, m2)
  BY DEF Bounded
<1> QED
  BY <1>2, <1>3, <1>4 DEF Sound

\* What the tables of the core and of the mirror say of a subscription.
LEMMA Subscribers ==
  ASSUME NEW c, NEW m, Sound(c, m), NEW d \in Subs
  PROVE  /\ \A x \in c.subs[d] :
              /\ x.who \in People /\ x.track \in Tracks
              /\ [who |-> x.who, track |-> x.track] \in m.subs[d]
         /\ \A y \in m.subs[d] :
              /\ y.who \in People /\ y.track \in Tracks
              /\ \E x \in c.subs[d] : x.who = y.who /\ x.track = y.track
<1>1. CoreAgrees(c) /\ MirrorAgrees(c, m) /\ c \in Cores /\ m \in Mirrors
  BY DEF Sound
<1>2. ASSUME NEW x \in c.subs[d]
      PROVE  /\ x.who \in People /\ x.track \in Tracks
             /\ [who |-> x.who, track |-> x.track] \in m.subs[d]
  <2>1. x.who \in People /\ x.track \in Tracks
    BY <1>1, <1>2 DEF Cores, SubRecords
  <2>2. [who |-> x.who, track |-> x.track] \in Mirrored
    BY <2>1 DEF Mirrored
  <2> QED
    BY <1>1, <1>2, <2>1, <2>2 DEF MirrorAgrees
<1>3. ASSUME NEW y \in m.subs[d]
      PROVE  /\ y.who \in People /\ y.track \in Tracks
             /\ \E x \in c.subs[d] : x.who = y.who /\ x.track = y.track
  <2>1. y \in Mirrored
    BY <1>1, <1>3 DEF Mirrors
  <2> QED
    BY <1>1, <1>3, <2>1 DEF MirrorAgrees, Mirrored
<1> QED
  BY <1>2, <1>3

\* The mirror loses tracks, field by field.
Without(m, gone) ==
  [m EXCEPT !.owners = [t \in Tracks |-> IF t \in gone THEN {} ELSE @[t]],
            !.inputs = [s \in Ssrcs |-> @[s] \ gone]]

LEMMA WithoutFields ==
  ASSUME NEW m \in Mirrors, NEW gone \in SUBSET Tracks
  PROVE  /\ Without(m, gone) \in Mirrors /\ Without(m, gone).bound = m.bound
         /\ Without(m, gone).subs = m.subs
         /\ Without(m, gone).congestion = m.congestion
         /\ \A t \in Tracks : Without(m, gone).owners[t]
                                = IF t \in gone THEN {} ELSE m.owners[t]
         /\ \A s \in Ssrcs : Without(m, gone).inputs[s] = m.inputs[s] \ gone
<1> DEFINE owners == [t \in Tracks |-> IF t \in gone THEN {} ELSE m.owners[t]]
           inputs == [s \in Ssrcs |-> m.inputs[s] \ gone]
           m2 == Without(m, gone)
<1>1. m2 = [m EXCEPT !.owners = owners, !.inputs = inputs]
  BY DEF Mirrors, Without
<1>2. /\ owners \in [Tracks -> SUBSET People]
      /\ inputs \in [Ssrcs -> SUBSET Tracks]
      /\ \A t \in Tracks : owners[t] = IF t \in gone THEN {} ELSE m.owners[t]
      /\ \A s \in Ssrcs : inputs[s] = m.inputs[s] \ gone
  BY DEF Mirrors
<1> HIDE DEF owners, inputs, m2
<1>3. /\ m2 \in Mirrors /\ m2.bound = m.bound /\ m2.subs = m.subs
      /\ m2.congestion = m.congestion
      /\ m2.owners = owners /\ m2.inputs = inputs
  BY <1>1, <1>2, Zenon DEF Mirrors
<1> QED
  BY <1>2, <1>3 DEF m2


\* SfuRegistry::unpublish: the tracks leave with the subscriptions to them.
LEMMA TracksLeaveTogether ==
  ASSUME Sound(core, managed), NEW gone \in SUBSET Tracks, TracksLeave(gone)
  PROVE  /\ Sound(core', managed')
         /\ managed'.bound = managed.bound
         /\ \A t \in Tracks : core'.tracks[t]
                                = IF t \in gone THEN {} ELSE core.tracks[t]
         /\ \A d \in Subs : core'.subs[d] \in {{}, core.subs[d]}
<1> DEFINE off == SubscribersOf(core, gone)
           c1 == CoreUnsubscribes(core, off)
           m1 == Forget(managed, off)
           m0 == Without(managed, gone)
<1>0. core \in Cores /\ managed \in Mirrors
  BY DEF Sound
<1>1. off \in SUBSET Subs
  BY <1>0, UnpublishFields
<1>2. off = {d \in Subs : \E s \in managed.subs[d] : s.track \in gone}
  <2>1. ASSUME NEW d \in Subs
        PROVE  d \in off <=> \E s \in managed.subs[d] : s.track \in gone
    <3>1. d \in off <=> \E t \in gone : d \in core.consumers[t]
      BY DEF SubscribersOf
    <3>2. \A t \in gone :
            d \in core.consumers[t] <=> \E x \in core.subs[d] : x.track = t
      BY DEF Sound, CoreAgrees
    <3>3. (\E x \in core.subs[d] : x.track \in gone)
            <=> \E s \in managed.subs[d] : s.track \in gone
      <4>1. ASSUME NEW x \in core.subs[d], x.track \in gone
            PROVE  \E s \in managed.subs[d] : s.track \in gone
        <5>1. [who |-> x.who, track |-> x.track] \in managed.subs[d]
          BY <4>1, Subscribers
        <5>2. [who |-> x.who, track |-> x.track].track \in gone
          BY <4>1
        <5> QED
          BY <5>1, <5>2, Zenon
      <4>2. ASSUME NEW s \in managed.subs[d], s.track \in gone
            PROVE  \E x \in core.subs[d] : x.track \in gone
        BY <4>2, Subscribers
      <4> QED
        BY <4>1, <4>2
    <3> QED
      BY <3>1, <3>2, <3>3, Zenon
  <2> QED
    BY <1>1, <2>1
<1>3. core' = CoreUnpublishes(core, gone) /\ managed' = Forget(m0, off)
  BY <1>2 DEF TracksLeave, Without
<1>4. Sound(c1, m1)
  BY <1>1, SubscriptionsLeave
<1>5. /\ c1.tracks = core.tracks /\ c1.ssrcs = core.ssrcs
      /\ \A d \in Subs : c1.subs[d] = IF d \in off THEN {} ELSE core.subs[d]
  BY <1>0, <1>1, UnsubscribeFields
<1>6. /\ m1.bound = managed.bound /\ m1.owners = managed.owners
      /\ m1.inputs = managed.inputs
      /\ \A d \in Subs : m1.subs[d] = IF d \in off THEN {} ELSE managed.subs[d]
      /\ \A p \in People : m1.congestion[p]
                             = {k \ off : k \in managed.congestion[p]}
  BY <1>0, <1>1, ForgetFields
<1> HIDE DEF off
<1>7. /\ core' \in Cores
      /\ \A t \in Tracks : core'.tracks[t]
                             = IF t \in gone THEN {} ELSE core.tracks[t]
      /\ \A s \in Ssrcs : core'.ssrcs[s] = core.ssrcs[s] \ gone
      /\ core'.subs = c1.subs /\ core'.outs = c1.outs
      /\ core'.consumers = c1.consumers
  <2>1. Unpublished(core, gone, core')
    BY <1>0, <1>3, UnpublishFields
  <2> QED
    BY <2>1, Zenon DEF Unpublished, off
<1>8. /\ m0 \in Mirrors /\ m0.bound = managed.bound
      /\ m0.subs = managed.subs /\ m0.congestion = managed.congestion
      /\ \A t \in Tracks : m0.owners[t]
                             = IF t \in gone THEN {} ELSE managed.owners[t]
      /\ \A s \in Ssrcs : m0.inputs[s] = managed.inputs[s] \ gone
  BY <1>0, WithoutFields
<1> HIDE DEF m0
<1>9. /\ managed' \in Mirrors /\ managed'.bound = m0.bound
      /\ managed'.owners = m0.owners /\ managed'.inputs = m0.inputs
      /\ \A d \in Subs : managed'.subs[d]
                           = IF d \in off THEN {} ELSE m0.subs[d]
      /\ \A p \in People : managed'.congestion[p]
                             = {k \ off : k \in m0.congestion[p]}
  BY <1>1, <1>3, <1>8, ForgetFields
<1>10. \A d \in Subs : \A x \in c1.subs[d] : x.track \notin gone
  <2> SUFFICES ASSUME NEW d \in Subs, NEW x \in c1.subs[d], x.track \in gone
               PROVE  FALSE
    OBVIOUS
  <2>1. d \notin off /\ x \in core.subs[d]
    BY <1>5
  <2>2. d \in core.consumers[x.track]
    BY <2>1 DEF Sound, CoreAgrees
  <2> QED
    BY <2>1, <2>2 DEF off, SubscribersOf
<1> HIDE DEF c1, m1
<1>11. /\ \A t \in Tracks : \A x \in c1.tracks[t] : x.owner \in m1.bound
       /\ \A d \in Subs : \A x \in c1.subs[d] : x.who \in m1.bound
       /\ \A p \in People : p \notin m1.bound => m1.congestion[p] = {}
  BY <1>4, Zenon DEF Sound, Bounded
<1>12. \A p \in People : managed'.congestion[p]
         = IF p \in managed'.bound THEN m1.congestion[p] ELSE {}
  <2>1. \A p \in People : managed'.congestion[p] = m1.congestion[p]
    BY <1>6, <1>8, <1>9, Zenon
  <2> QED
    BY <1>6, <1>8, <1>9, <1>11, <2>1, ZenonT(30)
<1>13. Sound(core', managed')
  <2>1. \A t \in Tracks : core'.tracks[t]
                            = IF t \in gone THEN {} ELSE c1.tracks[t]
    BY <1>5, <1>7
  <2>2. \A s \in Ssrcs : core'.ssrcs[s] = c1.ssrcs[s] \ gone
    BY <1>5, <1>7
  <2>3. \A t \in Tracks : managed'.owners[t]
                            = IF t \in gone THEN {} ELSE m1.owners[t]
    BY <1>6, <1>8, <1>9
  <2>4. \A s \in Ssrcs : managed'.inputs[s] = m1.inputs[s] \ gone
    BY <1>6, <1>8, <1>9
  <2>5. \A d \in Subs : managed'.subs[d] = m1.subs[d]
    BY <1>6, <1>8, <1>9
  <2>6. /\ \A t \in Tracks : \A x \in core'.tracks[t] :
             x.owner \in managed'.bound
        /\ \A d \in Subs : \A x \in core'.subs[d] : x.who \in managed'.bound
    BY <1>6, <1>7, <1>8, <1>9, <1>11, <2>1
  <2>7. Drops(c1, m1, gone, core', managed')
    BY <1>7, <1>9, <1>10, <1>12, <2>1, <2>2, <2>3, <2>4, <2>5, <2>6, Zenon
       DEF Drops
  <2> QED
    BY <1>4, <2>7, TracksGo
<1> QED
  BY <1>5, <1>7, <1>8, <1>9, <1>13


\* The mirror loses a participant and the tracks, field by field.
Departed(m, p, gone) ==
  [m EXCEPT !.bound = @ \ {p},
            !.owners = [t \in Tracks |-> IF t \in gone THEN {} ELSE @[t]],
            !.inputs = [s \in Ssrcs |-> @[s] \ gone],
            !.congestion[p] = {}]

HasDeparted(m, p, gone, m2) ==
  /\ m2 \in Mirrors /\ m2.bound = m.bound \ {p} /\ m2.subs = m.subs
  /\ \A q \in People : m2.congestion[q]
                         = IF q = p THEN {} ELSE m.congestion[q]
  /\ \A t \in Tracks : m2.owners[t] = IF t \in gone THEN {} ELSE m.owners[t]
  /\ \A s \in Ssrcs : m2.inputs[s] = m.inputs[s] \ gone

LEMMA DepartedFields ==
  ASSUME NEW m \in Mirrors, NEW gone \in SUBSET Tracks, NEW p \in People
  PROVE  HasDeparted(m, p, gone, Departed(m, p, gone))
<1> DEFINE owners == [t \in Tracks |-> IF t \in gone THEN {} ELSE m.owners[t]]
           inputs == [s \in Ssrcs |-> m.inputs[s] \ gone]
           congestion == [m.congestion EXCEPT ![p] = {}]
           bound == m.bound \ {p}
           m2 == Departed(m, p, gone)
<1>1. m2 = [m EXCEPT !.bound = bound, !.owners = owners, !.inputs = inputs,
                     !.congestion = congestion]
  BY DEF Mirrors, Departed
<1>2. /\ owners \in [Tracks -> SUBSET People]
      /\ inputs \in [Ssrcs -> SUBSET Tracks]
      /\ congestion \in [People -> SUBSET SUBSET Subs]
      /\ bound \in SUBSET People
      /\ \A t \in Tracks : owners[t] = IF t \in gone THEN {} ELSE m.owners[t]
      /\ \A s \in Ssrcs : inputs[s] = m.inputs[s] \ gone
      /\ \A q \in People : congestion[q]
                             = IF q = p THEN {} ELSE m.congestion[q]
  BY DEF Mirrors
<1> HIDE DEF owners, inputs, congestion, bound, m2
<1>3. /\ m2 \in Mirrors /\ m2.bound = bound /\ m2.subs = m.subs
      /\ m2.congestion = congestion
      /\ m2.owners = owners /\ m2.inputs = inputs
  BY <1>1, <1>2, Zenon DEF Mirrors
<1> QED
  BY <1>2, <1>3, Zenon DEF m2, bound, HasDeparted

\* What a participant has published.
Owned(m, p) == {t \in Tracks : m.owners[t] = {p}}

\* unbind_session: the participant leaves with the tracks they own, and with
\* every subscription to these or of theirs.
LEMMA ParticipantLeaves ==
  ASSUME Sound(core, managed), NEW p \in People, Leave(p),
         NEW owned, owned = Owned(managed, p)
  PROVE  /\ Sound(core', managed')
         /\ managed'.bound = managed.bound \ {p}
         /\ \A t \in Tracks : core'.tracks[t]
                                = IF t \in owned THEN {} ELSE core.tracks[t]
         /\ \A d \in Subs : core'.subs[d] \in {{}, core.subs[d]}
<1> DEFINE gone == Concerned(managed, p, owned)
           c1 == CoreUnsubscribes(core, gone)
           m1 == Forget(managed, gone)
           off == SubscribersOf(c1, owned)
<1>0. core \in Cores /\ managed \in Mirrors
  BY DEF Sound
<1>1. gone \in SUBSET Subs /\ owned \in SUBSET Tracks
  BY DEF Concerned, Owned
<1>2. core' = CoreUnpublishes(c1, owned) /\ managed' = Departed(m1, p, owned)
  BY DEF Leave, Departed, Owned
<1> HIDE DEF gone
<1>3. Sound(c1, m1)
  BY <1>1, SubscriptionsLeave
<1>4. /\ c1.tracks = core.tracks
      /\ \A d \in Subs : c1.subs[d] = IF d \in gone THEN {} ELSE core.subs[d]
  BY <1>0, <1>1, UnsubscribeFields
<1>5. m1.bound = managed.bound /\ m1.owners = managed.owners
  BY <1>0, <1>1, ForgetFields
<1>6. ASSUME NEW d \in Subs, NEW x \in c1.subs[d]
      PROVE  x.who # p /\ x.track \notin owned
  <2>1. d \notin gone /\ x \in core.subs[d]
    BY <1>4, <1>6
  <2>2. [who |-> x.who, track |-> x.track] \in managed.subs[d]
    BY <2>1, Subscribers
  <2>3. \A s \in managed.subs[d] : s.who # p /\ s.track \notin owned
    BY <2>1 DEF Concerned, gone
  <2> QED
    BY <2>2, <2>3
<1>7. ASSUME NEW t \in Tracks, t \notin owned, NEW x \in core.tracks[t]
      PROVE  x.owner # p
  <2> SUFFICES ASSUME x.owner = p
               PROVE  FALSE
    OBVIOUS
  <2>1. managed.owners[t] \in SUBSET People
    BY <1>0 DEF Mirrors
  <2>2. \A q \in People : q \in managed.owners[t] => q = p
    BY <1>7 DEF Sound, MirrorAgrees, CoreAgrees, Single
  <2>3. p \in managed.owners[t]
    BY <1>7 DEF Sound, MirrorAgrees
  <2> QED
    BY <1>7, <2>1, <2>2, <2>3 DEF Owned
<1> HIDE DEF c1, m1
<1>8. c1 \in Cores /\ m1 \in Mirrors
  BY <1>3 DEF Sound
<1>9. off = {}
  <2>1. ASSUME NEW t \in owned, NEW d \in c1.consumers[t]
        PROVE  FALSE
    <3>1. t \in Tracks /\ d \in Subs
      BY <1>1, <1>8, <2>1 DEF Cores
    <3>2. \E x \in c1.subs[d] : x.track = t
      BY <1>3, <2>1, <3>1 DEF Sound, CoreAgrees
    <3> QED
      BY <1>6, <2>1, <3>1, <3>2
  <2> QED
    BY <2>1 DEF SubscribersOf
<1> HIDE DEF off
<1> DEFINE c0 == CoreUnsubscribes(c1, off)
<1>10. /\ off \in SUBSET Subs /\ core' \in Cores
       /\ \A t \in Tracks : core'.tracks[t]
                              = IF t \in owned THEN {} ELSE c1.tracks[t]
       /\ \A s \in Ssrcs : core'.ssrcs[s] = c1.ssrcs[s] \ owned
       /\ core'.subs = c0.subs /\ core'.outs = c0.outs
       /\ core'.consumers = c0.consumers
  <2>1. off \in SUBSET Subs /\ Unpublished(c1, owned, core')
    BY <1>1, <1>2, <1>8, UnpublishFields DEF off
  <2> QED
    BY <2>1, Zenon DEF Unpublished, off
<1>11. /\ c0 \in Cores
       /\ \A d \in Subs : c0.subs[d] = IF d \in off THEN {} ELSE c1.subs[d]
       /\ \A o \in Outs : c0.outs[o] = c1.outs[o] \ off
       /\ \A t \in Tracks : c0.consumers[t] = c1.consumers[t] \ off
  BY <1>8, <1>10, UnsubscribeFields
<1> HIDE DEF c0
<1>12. /\ core'.subs = c1.subs /\ core'.outs = c1.outs
       /\ core'.consumers = c1.consumers
  <2>1. /\ \A d \in Subs : c0.subs[d] = c1.subs[d]
        /\ \A o \in Outs : c0.outs[o] = c1.outs[o]
        /\ \A t \in Tracks : c0.consumers[t] = c1.consumers[t]
    BY <1>9, <1>11
  <2> QED
    BY <1>8, <1>10, <1>11, <2>1 DEF Cores
<1>13. /\ managed' \in Mirrors /\ managed'.bound = m1.bound \ {p}
       /\ managed'.subs = m1.subs
       /\ \A q \in People : managed'.congestion[q]
                              = IF q = p THEN {} ELSE m1.congestion[q]
       /\ \A t \in Tracks : managed'.owners[t]
                              = IF t \in owned THEN {} ELSE m1.owners[t]
       /\ \A s \in Ssrcs : managed'.inputs[s] = m1.inputs[s] \ owned
  <2>1. HasDeparted(m1, p, owned, managed')
    BY <1>1, <1>2, <1>8, DepartedFields
  <2> QED
    BY <2>1, Zenon DEF HasDeparted
<1>14. /\ \A t \in Tracks : \A x \in c1.tracks[t] : x.owner \in m1.bound
       /\ \A d \in Subs : \A x \in c1.subs[d] : x.who \in m1.bound
       /\ \A q \in People : q \notin m1.bound => m1.congestion[q] = {}
  BY <1>3, Zenon DEF Sound, Bounded
<1>15. Drops(c1, m1, owned, core', managed')
  <2>1. \A q \in People : managed'.congestion[q]
          = IF q \in managed'.bound THEN m1.congestion[q] ELSE {}
    BY <1>13, <1>14, Zenon
  <2>2. \A t \in Tracks : \A x \in core'.tracks[t] : x.owner \in managed'.bound
    BY <1>4, <1>7, <1>10, <1>13, <1>14
  <2>3. \A d \in Subs : \A x \in core'.subs[d] : x.who \in managed'.bound
    BY <1>6, <1>12, <1>13, <1>14
  <2>4. \A d \in Subs : \A x \in c1.subs[d] : x.track \notin owned
    BY <1>6
  <2>5. \A d \in Subs : managed'.subs[d] = m1.subs[d]
    BY <1>13
  <2> QED
    BY <1>10, <1>12, <1>13, <2>1, <2>2, <2>3, <2>4, <2>5, Zenon DEF Drops
<1>16. Sound(core', managed')
  BY <1>1, <1>3, <1>15, TracksGo
<1> QED
  BY <1>4, <1>5, <1>10, <1>12, <1>13, <1>16


-----------------------------------------------------------------------------
(* Tracks, subscriptions and participants that arrive.                     *)

\* SfuRegistry::publish, field by field.
HasPublished(p, t, ssrcs) ==
  /\ p \in managed.bound /\ core.tracks[t] = {}
  /\ Count(core.tracks) < MaxTracks
  /\ \A s \in ssrcs : core.ssrcs[s] = {}
  /\ core' \in Cores /\ managed' \in Mirrors
  /\ core'.tracks
       = [core.tracks EXCEPT ![t] = {[owner |-> p, ssrcs |-> ssrcs]}]
  /\ core'.ssrcs
       = [s \in Ssrcs |-> IF s \in ssrcs THEN {t} ELSE core.ssrcs[s]]
  /\ core'.subs = core.subs /\ core'.outs = core.outs
  /\ core'.consumers = core.consumers
  /\ managed'.bound = managed.bound /\ managed'.subs = managed.subs
  /\ managed'.congestion = managed.congestion
  /\ managed'.owners = [managed.owners EXCEPT ![t] = {p}]
  /\ managed'.inputs
       = [s \in Ssrcs |-> IF s \in ssrcs THEN {t} ELSE managed.inputs[s]]

LEMMA PublishedFields ==
  ASSUME core \in Cores, managed \in Mirrors, NEW p \in People,
         NEW t \in Tracks, NEW ssrcs \in SUBSET Ssrcs,
         Published([id |-> t, owner |-> p, ssrcs |-> ssrcs])
  PROVE  HasPublished(p, t, ssrcs)
<1> DEFINE rec == [id |-> t, owner |-> p, ssrcs |-> ssrcs]
           tracks == [core.tracks EXCEPT ![t] = {[owner |-> p,
                                                  ssrcs |-> ssrcs]}]
           index ==
             [s \in Ssrcs |-> IF s \in ssrcs THEN {t} ELSE core.ssrcs[s]]
           owners == [managed.owners EXCEPT ![t] = {p}]
           inputs ==
             [s \in Ssrcs |-> IF s \in ssrcs THEN {t} ELSE managed.inputs[s]]
<1>1. rec.id = t /\ rec.owner = p /\ rec.ssrcs = ssrcs
  OBVIOUS
<1>2. Published(rec)
  OBVIOUS
<1> HIDE DEF rec
<1>3. /\ p \in managed.bound /\ core.tracks[t] = {}
      /\ Count(core.tracks) < MaxTracks
      /\ \A s \in ssrcs : core.ssrcs[s] = {}
      /\ core' = CorePublishes(core, rec)
  BY <1>1, <1>2, Zenon DEF Published, MayPublish
<1>4. core' = [tracks |-> tracks, ssrcs |-> index, subs |-> core.subs,
               consumers |-> core.consumers, outs |-> core.outs]
  BY <1>1, <1>3 DEF CorePublishes
<1>5. managed' = [managed EXCEPT !.owners = owners, !.inputs = inputs]
  BY <1>1, <1>2 DEF Published, Mirrors
<1>6. /\ tracks \in [Tracks -> SUBSET TrackRecords]
      /\ index \in [Ssrcs -> SUBSET Tracks]
  BY DEF Cores, TrackRecords
<1>7. /\ owners \in [Tracks -> SUBSET People]
      /\ inputs \in [Ssrcs -> SUBSET Tracks]
  BY DEF Mirrors
<1> HIDE DEF tracks, index, owners, inputs
<1>8. /\ core' \in Cores /\ core'.tracks = tracks /\ core'.ssrcs = index
      /\ core'.subs = core.subs /\ core'.outs = core.outs
      /\ core'.consumers = core.consumers
  BY <1>4, <1>6 DEF Cores
<1>9. /\ managed' \in Mirrors /\ managed'.bound = managed.bound
      /\ managed'.subs = managed.subs
      /\ managed'.congestion = managed.congestion
      /\ managed'.owners = owners /\ managed'.inputs = inputs
  BY <1>5, <1>7, Zenon DEF Mirrors
<1> QED
  BY <1>3, <1>8, <1>9, Zenon DEF tracks, index, owners, inputs, HasPublished

\* Room::publish and its mirror.
LEMMA TrackArrives ==
  ASSUME Sound(core, managed), NEW p \in People, NEW t \in Tracks,
         NEW ssrcs \in SUBSET Ssrcs,
         Published([id |-> t, owner |-> p, ssrcs |-> ssrcs])
  PROVE  /\ Sound(core', managed') /\ managed'.bound = managed.bound
         /\ core'.tracks[t] = {[owner |-> p, ssrcs |-> ssrcs]}
         /\ \A u \in Tracks : u # t => core'.tracks[u] = core.tracks[u]
         /\ core'.subs = core.subs
<1> DEFINE new == [owner |-> p, ssrcs |-> ssrcs]
<1>0. core \in Cores /\ managed \in Mirrors
  BY DEF Sound
<1>1. /\ p \in managed.bound /\ core.tracks[t] = {}
      /\ \A s \in ssrcs : core.ssrcs[s] = {}
      /\ core' \in Cores /\ managed' \in Mirrors
      /\ core'.tracks = [core.tracks EXCEPT ![t] = {new}]
      /\ core'.ssrcs
           = [s \in Ssrcs |-> IF s \in ssrcs THEN {t} ELSE core.ssrcs[s]]
      /\ core'.subs = core.subs /\ core'.outs = core.outs
      /\ core'.consumers = core.consumers
      /\ managed'.bound = managed.bound /\ managed'.subs = managed.subs
      /\ managed'.congestion = managed.congestion
      /\ managed'.owners = [managed.owners EXCEPT ![t] = {p}]
      /\ managed'.inputs
           = [s \in Ssrcs |-> IF s \in ssrcs THEN {t} ELSE managed.inputs[s]]
  <2>1. HasPublished(p, t, ssrcs)
    BY <1>0, PublishedFields
  <2> QED
    BY <2>1, Zenon DEF HasPublished
<1>2. new.owner = p /\ new.ssrcs = ssrcs
  OBVIOUS
<1> HIDE DEF new
<1>3. \A u \in Tracks :
        /\ core'.tracks[u] = IF u = t THEN {new} ELSE core.tracks[u]
        /\ managed'.owners[u] = IF u = t THEN {p} ELSE managed.owners[u]
  BY <1>0, <1>1 DEF Cores, Mirrors
<1>4. \A s \in Ssrcs :
        core'.ssrcs[s] = IF s \in ssrcs THEN {t} ELSE core.ssrcs[s]
  BY <1>1
<1>5. CoreAgrees(core) /\ MirrorAgrees(core, managed)
      /\ Bounded(core, managed)
  BY DEF Sound
<1>6. CoreAgrees(core')
  <2>1. /\ \A u \in Tracks : Single(core'.tracks[u])
        /\ \A d \in Subs : Single(core'.subs[d])
    BY <1>1, <1>3, <1>5 DEF CoreAgrees, Single
  <2>2. ASSUME NEW s \in Ssrcs, NEW u \in Tracks
        PROVE  u \in core'.ssrcs[s]
                 <=> \E x \in core'.tracks[u] : s \in x.ssrcs
    <3>1. u \in core.ssrcs[s] <=> \E x \in core.tracks[u] : s \in x.ssrcs
      BY <1>5 DEF CoreAgrees
    <3>2. s \in ssrcs => \A x \in core.tracks[u] : s \notin x.ssrcs
      BY <1>1, <3>1
    <3>3. CASE s \in ssrcs
      BY <1>2, <1>3, <1>4, <3>2, <3>3
    <3>4. CASE s \notin ssrcs
      BY <1>1, <1>2, <1>3, <1>4, <3>1, <3>4
    <3> QED
      BY <3>3, <3>4
  <2>3. /\ \A u \in Tracks : \A d \in Subs :
             d \in core'.consumers[u] <=> \E x \in core'.subs[d] : x.track = u
        /\ \A o \in Outs : \A d \in Subs :
             d \in core'.outs[o] <=> \E x \in core'.subs[d] : x.out = o
    <3>1. /\ core'.subs = core.subs /\ core'.outs = core.outs
          /\ core'.consumers = core.consumers
      BY <1>1
    <3> QED
      BY <1>5, <3>1 DEF CoreAgrees
  <2>4. ASSUME NEW d \in Subs, NEW x \in core'.subs[d]
        PROVE  core'.tracks[x.track] # {}
    <3>1. x \in core.subs[d] /\ x.track \in Tracks
      BY <1>0, <1>1, <2>4 DEF Cores, SubRecords
    <3>2. core.tracks[x.track] # {}
      BY <1>5, <3>1 DEF CoreAgrees
    <3> QED
      BY <1>3, <3>1, <3>2
  <2> QED
    BY <2>1, <2>2, <2>3, <2>4 DEF CoreAgrees
<1>7. MirrorAgrees(core', managed')
  <2>1. \A u \in Tracks : \A q \in People :
          q \in managed'.owners[u] <=> \E x \in core'.tracks[u] : x.owner = q
    BY <1>2, <1>3, <1>5 DEF MirrorAgrees
  <2>2. managed'.inputs = core'.ssrcs
    <3>1. managed.inputs = core.ssrcs
      BY <1>5 DEF MirrorAgrees
    <3>2. \A s \in Ssrcs : managed'.inputs[s]
            = IF s \in ssrcs THEN {t} ELSE core.ssrcs[s]
      BY <1>1, <3>1
    <3> QED
      BY <1>1, <1>4, <3>2 DEF Cores, Mirrors
  <2>3. /\ core'.subs = core.subs /\ managed'.subs = managed.subs
        /\ managed'.congestion = managed.congestion
    BY <1>1
  <2> QED
    BY <1>5, <2>1, <2>2, <2>3 DEF MirrorAgrees
<1>8. Bounded(core', managed')
  BY <1>1, <1>2, <1>3, <1>5 DEF Bounded
<1>9. /\ core'.tracks[t] = {new}
      /\ \A u \in Tracks : u # t => core'.tracks[u] = core.tracks[u]
  BY <1>3
<1> QED
  BY <1>1, <1>6, <1>7, <1>8, <1>9 DEF Sound, new


\* One more member of the union.
LEMMA UnionFacts ==
  ASSUME NEW T, NEW S \in SUBSET SUBSET T, NEW d \in T
  PROVE  /\ (UNION S) \cup {d} \in SUBSET T
         /\ \A e \in (UNION S) \cup {d} : e = d \/ \E j \in S : e \in j
OBVIOUS

\* SfuRegistry::subscribe, field by field.
HasSubscribed(p, d, t, out, twcc) ==
  LET congested == managed.congestion[p]
  IN  /\ p \in managed.bound /\ core.tracks[t] # {}
      /\ core.subs[d] = {} /\ core.outs[out] = {}
      /\ Count(core.subs) < MaxSubs
      /\ core' \in Cores /\ managed' \in Mirrors
      /\ core'.tracks = core.tracks /\ core'.ssrcs = core.ssrcs
      /\ core'.subs = [core.subs EXCEPT ![d] = {[who |-> p, track |-> t,
                                                 out |-> out]}]
      /\ core'.outs = [core.outs EXCEPT ![out] = {d}]
      /\ core'.consumers
           = [core.consumers EXCEPT ![t] = core.consumers[t] \cup {d}]
      /\ managed'.bound = managed.bound /\ managed'.owners = managed.owners
      /\ managed'.inputs = managed.inputs
      /\ managed'.subs
           = [managed.subs EXCEPT ![d] = {[who |-> p, track |-> t]}]
      /\ managed'.congestion
           = [managed.congestion EXCEPT
                ![p] = IF twcc THEN {(UNION congested) \cup {d}}
                       ELSE congested]

LEMMA SubscribedFields ==
  ASSUME core \in Cores, managed \in Mirrors, NEW p \in People,
         NEW d \in Subs, NEW t \in Tracks, NEW out \in Outs,
         NEW twcc \in BOOLEAN, Subscribed(p, d, t, out, twcc)
  PROVE  HasSubscribed(p, d, t, out, twcc)
<1> DEFINE ask == [id |-> d, track |-> t, out |-> out]
           rec == [id |-> d, who |-> p, track |-> t, out |-> out]
           new == [who |-> p, track |-> t, out |-> out]
           seen == [who |-> p, track |-> t]
           subs == [core.subs EXCEPT ![d] = {new}]
           outs == [core.outs EXCEPT ![out] = {d}]
           consumers ==
             [core.consumers EXCEPT ![t] = core.consumers[t] \cup {d}]
           mirrored == [managed.subs EXCEPT ![d] = {seen}]
           congested == managed.congestion[p]
           flows == IF twcc THEN {(UNION congested) \cup {d}} ELSE congested
           congestion == [managed.congestion EXCEPT ![p] = flows]
<1>1. /\ ask.id = d /\ ask.track = t /\ ask.out = out
      /\ rec.id = d /\ rec.who = p /\ rec.track = t /\ rec.out = out
      /\ new \in SubRecords /\ seen \in Mirrored
  BY DEF SubRecords, Mirrored
<1>2. /\ p \in managed.bound /\ MaySubscribe(ask)
      /\ core' = CoreSubscribes(core, rec)
  BY Zenon DEF Subscribed
<1>3. managed' = [managed EXCEPT !.subs = mirrored, !.congestion = congestion]
  BY DEF Subscribed, Mirrors
<1> HIDE DEF ask
<1>4. /\ core.tracks[t] # {} /\ core.subs[d] = {} /\ core.outs[out] = {}
      /\ Count(core.subs) < MaxSubs
  BY <1>1, <1>2, Zenon DEF MaySubscribe
<1>5. core' = [core EXCEPT !.subs = subs, !.outs = outs,
                           !.consumers = consumers]
  BY <1>2 DEF CoreSubscribes, Cores
<1> HIDE DEF rec, new, seen
<1>6. /\ subs \in [Subs -> SUBSET SubRecords]
      /\ outs \in [Outs -> SUBSET Subs]
      /\ consumers \in [Tracks -> SUBSET Subs]
  BY <1>1 DEF Cores
<1>7. /\ mirrored \in [Subs -> SUBSET Mirrored]
      /\ congestion \in [People -> SUBSET SUBSET Subs]
  <2>1. flows \in SUBSET SUBSET Subs
    <3>1. congested \in SUBSET SUBSET Subs
      BY DEF Mirrors
    <3> HIDE DEF congested
    <3>2. (UNION congested) \cup {d} \in SUBSET Subs
      BY <3>1, UnionFacts
    <3>3. CASE twcc
      BY <3>2, <3>3
    <3>4. CASE ~twcc
      BY <3>1, <3>4
    <3> QED
      BY <3>3, <3>4
  <2> HIDE DEF flows
  <2> QED
    BY <1>1, <2>1 DEF Mirrors
<1> HIDE DEF subs, outs, consumers, mirrored, congestion
<1>8. /\ core' \in Cores /\ core'.tracks = core.tracks
      /\ core'.ssrcs = core.ssrcs /\ core'.subs = subs /\ core'.outs = outs
      /\ core'.consumers = consumers
  BY <1>5, <1>6, Zenon DEF Cores
<1>9. /\ managed' \in Mirrors /\ managed'.bound = managed.bound
      /\ managed'.owners = managed.owners
      /\ managed'.inputs = managed.inputs /\ managed'.subs = mirrored
      /\ managed'.congestion = congestion
  BY <1>3, <1>7, Zenon DEF Mirrors
<1> QED
  BY <1>2, <1>4, <1>8, <1>9, Zenon
     DEF HasSubscribed, subs, outs, consumers, mirrored, congestion, new, seen

\* Room::subscribe and its mirror.
LEMMA SubscriptionArrives ==
  ASSUME Sound(core, managed), NEW p \in People, NEW d \in Subs,
         NEW t \in Tracks, NEW out \in Outs, NEW twcc \in BOOLEAN,
         Subscribed(p, d, t, out, twcc)
  PROVE  /\ Sound(core', managed') /\ managed'.bound = managed.bound
         /\ core'.tracks = core.tracks
         /\ core.subs[d] = {} /\ Count(core.subs) < MaxSubs
         /\ \A e \in Subs : e # d => core'.subs[e] = core.subs[e]
<1> DEFINE new == [who |-> p, track |-> t, out |-> out]
           seen == [who |-> p, track |-> t]
           congested == managed.congestion[p]
           flows == IF twcc THEN {(UNION congested) \cup {d}} ELSE congested
<1>0. core \in Cores /\ managed \in Mirrors
  BY DEF Sound
<1>1. /\ p \in managed.bound /\ core.tracks[t] # {}
      /\ core.subs[d] = {} /\ core.outs[out] = {}
      /\ Count(core.subs) < MaxSubs
      /\ core' \in Cores /\ managed' \in Mirrors
      /\ core'.tracks = core.tracks /\ core'.ssrcs = core.ssrcs
      /\ core'.subs = [core.subs EXCEPT ![d] = {new}]
      /\ core'.outs = [core.outs EXCEPT ![out] = {d}]
      /\ core'.consumers
           = [core.consumers EXCEPT ![t] = core.consumers[t] \cup {d}]
      /\ managed'.bound = managed.bound /\ managed'.owners = managed.owners
      /\ managed'.inputs = managed.inputs
      /\ managed'.subs = [managed.subs EXCEPT ![d] = {seen}]
      /\ managed'.congestion = [managed.congestion EXCEPT ![p] = flows]
  <2>1. HasSubscribed(p, d, t, out, twcc)
    BY <1>0, SubscribedFields
  <2> QED
    BY <2>1, Zenon DEF HasSubscribed
<1>2. /\ new.who = p /\ new.track = t /\ new.out = out
      /\ seen.who = p /\ seen.track = t
      /\ \A y \in Mirrored : y.who = p /\ y.track = t => y = seen
  BY DEF Mirrored
<1> HIDE DEF new, seen, flows
<1>3. /\ \A e \in Subs : core'.subs[e] = IF e = d THEN {new} ELSE core.subs[e]
      /\ \A o \in Outs : core'.outs[o] = IF o = out THEN {d} ELSE core.outs[o]
      /\ \A u \in Tracks : core'.consumers[u]
           = IF u = t THEN core.consumers[u] \cup {d} ELSE core.consumers[u]
  BY <1>0, <1>1, ZenonT(30) DEF Cores
<1>4. /\ \A e \in Subs : managed'.subs[e]
                           = IF e = d THEN {seen} ELSE managed.subs[e]
      /\ \A q \in People : managed'.congestion[q]
                             = IF q = p THEN flows ELSE managed.congestion[q]
  BY <1>0, <1>1 DEF Mirrors
<1>5. CoreAgrees(core) /\ MirrorAgrees(core, managed)
      /\ Bounded(core, managed)
  BY DEF Sound
<1>6. CoreAgrees(core')
  <2>1. /\ \A u \in Tracks : Single(core'.tracks[u])
        /\ \A e \in Subs : Single(core'.subs[e])
    BY <1>1, <1>3, <1>5, SMTT(30) DEF CoreAgrees, Single
  <2>2. \A s \in Ssrcs : \A u \in Tracks :
          u \in core'.ssrcs[s] <=> \E x \in core'.tracks[u] : s \in x.ssrcs
    <3>1. core'.tracks = core.tracks /\ core'.ssrcs = core.ssrcs
      BY <1>1
    <3> QED
      BY <1>5, <3>1 DEF CoreAgrees
  <2>3. ASSUME NEW u \in Tracks, NEW e \in Subs
        PROVE  e \in core'.consumers[u]
                 <=> \E x \in core'.subs[e] : x.track = u
    <3>1. e \in core.consumers[u] <=> \E x \in core.subs[e] : x.track = u
      BY <1>5 DEF CoreAgrees
    <3>2. CASE e = d
      <4>1. e \notin core.consumers[u] /\ core'.subs[e] = {new}
        BY <1>1, <1>3, <3>1, <3>2
      <4>2. e \in core'.consumers[u] <=> u = t
        BY <1>3, <3>2, <4>1, Zenon
      <4> QED
        BY <1>2, <4>1, <4>2
    <3>3. CASE e # d
      <4>1. core'.subs[e] = core.subs[e]
        BY <1>3, <3>3
      <4>2. e \in core'.consumers[u] <=> e \in core.consumers[u]
        BY <1>3, <3>3, Zenon
      <4> QED
        BY <3>1, <4>1, <4>2
    <3> QED
      BY <3>2, <3>3
  <2>4. ASSUME NEW o \in Outs, NEW e \in Subs
        PROVE  e \in core'.outs[o] <=> \E x \in core'.subs[e] : x.out = o
    <3>1. e \in core.outs[o] <=> \E x \in core.subs[e] : x.out = o
      BY <1>5 DEF CoreAgrees
    <3>2. CASE e = d
      BY <1>1, <1>2, <1>3, <3>1, <3>2
    <3>3. CASE e # d
      BY <1>1, <1>2, <1>3, <3>1, <3>3, SMTT(30)
    <3> QED
      BY <3>2, <3>3
  <2>5. \A e \in Subs : \A x \in core'.subs[e] : core'.tracks[x.track] # {}
    <3>1. core.tracks[t] # {} /\ core'.tracks = core.tracks
      BY <1>1, SMTT(30)
    <3>2. \A e \in Subs : \A x \in core.subs[e] : core.tracks[x.track] # {}
      BY <1>5 DEF CoreAgrees
    <3> QED
      BY <1>2, <1>3, <3>1, <3>2, SMTT(30)
  <2> QED
    BY <2>1, <2>2, <2>3, <2>4, <2>5 DEF CoreAgrees
<1>7. MirrorAgrees(core', managed')
  <2>1. /\ core'.tracks = core.tracks /\ managed'.owners = managed.owners
        /\ core'.ssrcs = core.ssrcs /\ managed'.inputs = managed.inputs
    BY <1>1
  <2>2. /\ \A u \in Tracks : \A q \in People :
             q \in managed'.owners[u]
               <=> \E x \in core'.tracks[u] : x.owner = q
        /\ managed'.inputs = core'.ssrcs
    BY <1>5, <2>1 DEF MirrorAgrees
  <2>3. ASSUME NEW e \in Subs, NEW y \in Mirrored
        PROVE  y \in managed'.subs[e]
                 <=> \E x \in core'.subs[e] : /\ x.who = y.who
                                              /\ x.track = y.track
    <3>1. y \in managed.subs[e]
            <=> \E x \in core.subs[e] : x.who = y.who /\ x.track = y.track
      BY <1>5 DEF MirrorAgrees
    <3> QED
      BY <1>2, <1>3, <1>4, <3>1
  <2>4. ASSUME NEW q \in People, NEW k \in managed'.congestion[q], NEW e \in k
        PROVE  \E x \in core'.subs[e] : x.who = q
    <3>0. e \in Subs
      BY <1>1, <2>4 DEF Mirrors
    <3>1. CASE e = d /\ q = p
      BY <1>2, <1>3, <3>0, <3>1
    <3>2. CASE \E j \in managed.congestion[q] : e \in j
      <4>1. \E x \in core.subs[e] : x.who = q
        BY <1>5, <3>2 DEF MirrorAgrees
      <4> QED
        BY <1>1, <1>3, <3>0, <4>1, SMTT(30)
    <3>3. q = p => k \in flows
      BY <1>4, <2>4
    <3>4. q # p => k \in managed.congestion[q]
      BY <1>4, <2>4
    <3>5. k \in flows => e = d \/ \E j \in managed.congestion[p] : e \in j
      <4>1. CASE twcc
        <5>1. k \in flows => k = (UNION congested) \cup {d}
          BY <4>1 DEF flows
        <5>2. congested \in SUBSET SUBSET Subs
          BY <1>0 DEF Mirrors
        <5>3. \A f \in (UNION congested) \cup {d} :
                f = d \/ \E j \in congested : f \in j
          BY <5>2, UnionFacts, Zenon
        <5> QED
          BY <2>4, <5>1, <5>3, Zenon
      <4>2. CASE ~twcc
        BY <2>4, <4>2, ZenonT(30) DEF flows
      <4> QED
        BY <4>1, <4>2
    <3> QED
      BY <2>4, <3>1, <3>2, <3>3, <3>4, <3>5, SMTT(30)
  <2> QED
    BY <2>2, <2>3, <2>4 DEF MirrorAgrees
<1>8. Bounded(core', managed')
  BY <1>1, <1>2, <1>3, <1>4, <1>5 DEF Bounded
<1> QED
  BY <1>1, <1>3, <1>6, <1>7, <1>8 DEF Sound

-----------------------------------------------------------------------------
(* What the properties say of the tables.                                  *)

\* The indices are the sets the properties name.
LEMMA SoundAgrees ==
  ASSUME Sound(core, managed)
  PROVE  TablesAgree
<1>0. /\ core \in Cores /\ managed \in Mirrors /\ CoreAgrees(core)
      /\ MirrorAgrees(core, managed)
  BY DEF Sound
<1>1. ASSUME NEW t \in Tracks
      PROVE  managed.owners[t] = {x.owner : x \in core.tracks[t]}
  <2>1. managed.owners[t] \in SUBSET People
    BY <1>0 DEF Mirrors
  <2>2. \A x \in core.tracks[t] : x.owner \in People
    BY <1>0 DEF Cores, TrackRecords
  <2>3. \A p \in People :
          p \in managed.owners[t] <=> \E x \in core.tracks[t] : x.owner = p
    BY <1>0 DEF MirrorAgrees
  <2> QED
    BY <2>1, <2>2, <2>3
<1>2. managed.inputs = core.ssrcs
  BY <1>0 DEF MirrorAgrees
<1>3. ASSUME NEW s \in Ssrcs
      PROVE  core.ssrcs[s] = {t \in Tracks : \E x \in core.tracks[t] :
                                               s \in x.ssrcs}
  <2>1. core.ssrcs[s] \in SUBSET Tracks
    BY <1>0 DEF Cores
  <2>2. \A t \in Tracks :
          t \in core.ssrcs[s] <=> \E x \in core.tracks[t] : s \in x.ssrcs
    BY <1>0 DEF CoreAgrees
  <2> QED
    BY <2>1, <2>2
<1>4. ASSUME NEW d \in Subs
      PROVE  managed.subs[d] = {[who |-> x.who, track |-> x.track] :
                                  x \in core.subs[d]}
  <2>1. \A x \in core.subs[d] :
          [who |-> x.who, track |-> x.track] \in managed.subs[d]
    BY Subscribers, Zenon
  <2>2. ASSUME NEW y \in managed.subs[d]
        PROVE  \E x \in core.subs[d] : y = [who |-> x.who, track |-> x.track]
    <3>1. PICK x \in core.subs[d] : x.who = y.who /\ x.track = y.track
      BY <2>2, Subscribers
    <3>2. y \in Mirrored
      BY <1>0, <2>2 DEF Mirrors
    <3>3. y = [who |-> x.who, track |-> x.track]
      BY <3>1, <3>2 DEF Mirrored
    <3> QED
      BY <3>3, Zenon
  <2> QED
    BY <2>1, <2>2, Zenon
<1>5. ASSUME NEW t \in Tracks
      PROVE  core.consumers[t] = {d \in Subs : \E x \in core.subs[d] :
                                                 x.track = t}
  <2>1. core.consumers[t] \in SUBSET Subs
    BY <1>0 DEF Cores
  <2>2. \A d \in Subs :
          d \in core.consumers[t] <=> \E x \in core.subs[d] : x.track = t
    BY <1>0 DEF CoreAgrees
  <2> QED
    BY <2>1, <2>2
<1>6. ASSUME NEW o \in Outs
      PROVE  core.outs[o] = {d \in Subs : \E x \in core.subs[d] : x.out = o}
  <2>1. core.outs[o] \in SUBSET Subs
    BY <1>0 DEF Cores
  <2>2. \A d \in Subs :
          d \in core.outs[o] <=> \E x \in core.subs[d] : x.out = o
    BY <1>0 DEF CoreAgrees
  <2> QED
    BY <2>1, <2>2
<1>7. \A p \in People : \A k \in managed.congestion[p] :
        \A d \in k : \E x \in core.subs[d] : x.who = p
  BY <1>0 DEF MirrorAgrees
<1> QED
  BY <1>1, <1>2, <1>3, <1>4, <1>5, <1>6, <1>7, Zenon DEF TablesAgree

\* With nobody bound there is nothing left.
LEMMA SoundIsOwned ==
  ASSUME Sound(core, managed)
  PROVE  EverythingIsOwned
<1>0. /\ core \in Cores /\ managed \in Mirrors /\ CoreAgrees(core)
      /\ MirrorAgrees(core, managed) /\ Bounded(core, managed)
  BY DEF Sound
<1>1. ASSUME NEW t \in Tracks
      PROVE  managed.owners[t] \subseteq managed.bound
  <2>1. managed.owners[t] \in SUBSET People
    BY <1>0 DEF Mirrors
  <2> QED
    BY <1>0, <2>1 DEF MirrorAgrees, Bounded
<1>2. \A d \in Subs : \A x \in core.subs[d] :
        x.who \in managed.bound /\ core.tracks[x.track] # {}
  BY <1>0 DEF CoreAgrees, Bounded
<1>3. ASSUME managed.bound = {}
      PROVE  core = EmptyCore /\ managed = EmptyManaged
  <2>1. /\ \A t \in Tracks : core.tracks[t] = {}
        /\ \A d \in Subs : core.subs[d] = {}
        /\ \A p \in People : managed.congestion[p] = {}
    BY <1>0, <1>3 DEF Bounded
  <2>2. TablesAgree
    BY SoundAgrees
  <2>3. /\ \A t \in Tracks : managed.owners[t] = {}
        /\ \A s \in Ssrcs : core.ssrcs[s] = {}
        /\ \A d \in Subs : managed.subs[d] = {}
        /\ \A t \in Tracks : core.consumers[t] = {}
        /\ \A o \in Outs : core.outs[o] = {}
    BY <2>1, <2>2, SMTT(30) DEF TablesAgree
  <2>4. /\ core.tracks = [t \in Tracks |-> {}]
        /\ core.ssrcs = [s \in Ssrcs |-> {}]
        /\ core.subs = [d \in Subs |-> {}]
        /\ core.consumers = [t \in Tracks |-> {}]
        /\ core.outs = [o \in Outs |-> {}]
    BY <1>0, <2>1, <2>3 DEF Cores
  <2>5. /\ managed.owners = [t \in Tracks |-> {}]
        /\ managed.subs = [d \in Subs |-> {}]
        /\ managed.congestion = [p \in People |-> {}]
    BY <1>0, <2>1, <2>3 DEF Mirrors
  <2>6. managed.inputs = [s \in Ssrcs |-> {}]
    BY <2>2, <2>4, Zenon DEF TablesAgree
  <2>7. core = EmptyCore
    BY <1>0, <2>4, SMTT(30) DEF Cores, EmptyCore
  <2>8. managed = EmptyManaged
    BY <1>0, <1>3, <2>5, <2>6 DEF Mirrors, EmptyManaged
  <2> QED
    BY <2>7, <2>8
<1> QED
  BY <1>1, <1>2, <1>3, Zenon DEF EverythingIsOwned
=============================================================================
