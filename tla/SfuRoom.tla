------------------------------ MODULE SfuRoom ------------------------------
(***************************************************************************)
(* The tables of one room of the SFU                                       *)
(* (crates/services/media-node/src/{sfu_runtime,main}.rs and               *)
(* crates/webrtc/sfu-core/src/room.rs).                                    *)
(*                                                                         *)
(* The room core indexes its tracks and subscriptions in six maps; the     *)
(* runtime around it mirrors them in five of its own, under the lock of    *)
(* the room; recording sinks and transcode ingresses are kept apart,       *)
(* under locks of their own.  A handler that needs two locks takes them    *)
(* one after the other: what it found under the first is a task here,      *)
(* carried out later.                                                      *)
(***************************************************************************)
EXTENDS Naturals, FiniteSets

CONSTANTS
  People,        \* participants
  Tracks,        \* track identifiers
  Ssrcs,         \* input SSRCs
  Subs,          \* subscription identifiers
  Outs,          \* output SSRCs
  Sinks,         \* loopback destinations of recorders and transcoders
  MaxTracks,     \* max_tracks
  MaxSubs,       \* max_subscriptions
  MaxIngresses,  \* MAX_TRANSCODE_INGRESSES
  MaxTasks       \* bound: handlers between two locks

ASSUME SfuAssumption ==
  /\ MaxTracks \in Nat /\ MaxSubs \in Nat
  /\ MaxIngresses \in Nat /\ MaxTasks \in Nat

VARIABLES
  core,       \* the Room: tracks, ssrc_index, subscriptions,
              \* track_subscriptions, output_ssrc_index
  managed,    \* the ManagedRoom around it: participant_sessions,
              \* track_owners, input_tracks, subscriptions, congestion
  sinks,      \* recording_sinks
  ingresses,  \* transcode_ingresses
  tasks,      \* handlers that have released the lock of the room
  reused,     \* history: tracks published again while their removal was due
  slipped     \* history: tracks with a sink given after they were unpublished

sfuVars == <<core, managed, sinks, ingresses, tasks, reused, slipped>>

EmptyCore ==
  [tracks |-> [t \in Tracks |-> {}], ssrcs |-> [s \in Ssrcs |-> {}],
   subs |-> [d \in Subs |-> {}], consumers |-> [t \in Tracks |-> {}],
   outs |-> [o \in Outs |-> {}]]

EmptyManaged ==
  [bound |-> {}, owners |-> [t \in Tracks |-> {}],
   inputs |-> [s \in Ssrcs |-> {}], subs |-> [d \in Subs |-> {}],
   congestion |-> [p \in People |-> {}]]

SfuInit ==
  /\ core = EmptyCore /\ managed = EmptyManaged
  /\ sinks = {} /\ ingresses = {} /\ tasks = {}
  /\ reused = {} /\ slipped = {}

Count(table) == Cardinality({x \in DOMAIN table : table[x] # {}})

-----------------------------------------------------------------------------
(* The room core.                                                          *)

\* Room::publish: a new track whose SSRCs no other track has.
CorePublishes(c, t) ==
  [tracks |-> [c.tracks EXCEPT ![t.id] = {[owner |-> t.owner,
                                           ssrcs |-> t.ssrcs]}],
   ssrcs |-> [s \in Ssrcs |-> IF s \in t.ssrcs THEN {t.id} ELSE c.ssrcs[s]],
   subs |-> c.subs, consumers |-> c.consumers, outs |-> c.outs]

MayPublish(t) ==
  /\ core.tracks[t.id] = {} /\ t.ssrcs # {}
  /\ Count(core.tracks) < MaxTracks
  /\ \A s \in t.ssrcs : core.ssrcs[s] = {}

\* remove_subscription, for a set of them.
CoreUnsubscribes(c, gone) ==
  [c EXCEPT !.subs = [d \in Subs |-> IF d \in gone THEN {} ELSE @[d]],
            !.outs = [o \in Outs |-> @[o] \ gone],
            !.consumers = [t \in Tracks |-> @[t] \ gone]]

\* Room::unpublish, for a set of tracks.
CoreUnpublishes(c, gone) ==
  LET rest == CoreUnsubscribes(c, UNION {c.consumers[t] : t \in gone})
  IN  [rest EXCEPT
         !.tracks = [t \in Tracks |-> IF t \in gone THEN {} ELSE @[t]],
         !.ssrcs = [s \in Ssrcs |-> @[s] \ gone]]

\* Room::subscribe.
MaySubscribe(d) ==
  /\ core.subs[d.id] = {} /\ core.outs[d.out] = {}
  /\ Count(core.subs) < MaxSubs
  /\ core.tracks[d.track] # {}

CoreSubscribes(c, d) ==
  [c EXCEPT !.subs[d.id] = {[who |-> d.who, track |-> d.track,
                             out |-> d.out]},
            !.outs[d.out] = {d.id},
            !.consumers[d.track] = @ \cup {d.id}]

-----------------------------------------------------------------------------
(* The runtime, under the lock of the room.                                *)

\* The mirror of a set of subscriptions is dropped.
Forget(m, gone) ==
  [m EXCEPT !.subs = [d \in Subs |-> IF d \in gone THEN {} ELSE @[d]],
            !.congestion = [p \in People |-> {c \ gone : c \in @[p]}]]

\* The subscriptions a participant has, or has given others to its tracks.
Concerned(m, p, tracks) ==
  {d \in Subs : \E s \in m.subs[d] : s.who = p \/ s.track \in tracks}

\* bind_session.
Bind(p) ==
  /\ managed' = [managed EXCEPT !.bound = @ \cup {p}]
  /\ UNCHANGED <<core, sinks, ingresses, tasks, reused, slipped>>

\* A removal of the track is due: a task, or what an ingress will ask for.
Due(t, ts, gs) ==
  \/ \E task \in ts : task.op = "unpublish" /\ t \in task.tracks
  \/ \E task \in ts : task.op = "ingress" /\ t = task.track
  \/ \E g \in gs : g.track = t

RememberSource(t) ==
  reused' = IF Due(t, tasks, ingresses) THEN reused \cup {t} ELSE reused

\* SfuRegistry::publish.
Published(t) ==
  /\ t.owner \in managed.bound /\ MayPublish(t)
  /\ core' = CorePublishes(core, t)
  /\ managed' = [managed EXCEPT
       !.owners[t.id] = {t.owner},
       !.inputs = [s \in Ssrcs |-> IF s \in t.ssrcs THEN {t.id} ELSE @[s]]]
  /\ RememberSource(t.id)

Publish(p, t, ssrcs) ==
  /\ Published([id |-> t, owner |-> p, ssrcs |-> ssrcs])
  /\ UNCHANGED <<sinks, ingresses, tasks, slipped>>

\* SfuRegistry::subscribe, with or without transport-wide feedback.
Subscribed(p, d, t, out, twcc) ==
  /\ p \in managed.bound
  /\ MaySubscribe([id |-> d, track |-> t, out |-> out])
  /\ core' = CoreSubscribes(core, [id |-> d, who |-> p, track |-> t,
                                   out |-> out])
  /\ managed' = [managed EXCEPT
       !.subs[d] = {[who |-> p, track |-> t]},
       !.congestion[p] = IF twcc THEN {(UNION @) \cup {d}} ELSE @]

Subscribe(p, d, t, out, twcc) ==
  /\ Subscribed(p, d, t, out, twcc)
  /\ UNCHANGED <<sinks, ingresses, tasks, reused, slipped>>

\* Mutant of Unsubscribed: the mirror stays.
UnsubscribedCore(p, d) ==
  /\ \E s \in managed.subs[d] : s.who = p
  /\ core' = CoreUnsubscribes(core, {d})
  /\ UNCHANGED managed

\* SfuRegistry::unsubscribe.
Unsubscribed(p, d) ==
  /\ \E s \in managed.subs[d] : s.who = p
  /\ core' = CoreUnsubscribes(core, {d})
  /\ managed' = Forget(managed, {d})

Unsubscribe(p, d) ==
  /\ Unsubscribed(p, d)
  /\ UNCHANGED <<sinks, ingresses, tasks, reused, slipped>>

-----------------------------------------------------------------------------
(* Handlers that release the lock of the room on the way.                  *)

Later(task) == Cardinality(tasks \cup {task}) <= MaxTasks

\* Mutant of UnpublishOwned: any participant's track.
UnpublishAny(p, t) ==
  LET task == [op |-> "unpublish", by |-> p, tracks |-> {t}]
  IN  /\ managed.owners[t] # {} /\ Later(task)
      /\ tasks' = tasks \cup {task}
      /\ UNCHANGED <<core, managed, sinks, ingresses, reused, slipped>>

\* unpublish_owned: the owner is checked.
UnpublishOwned(p, t) ==
  LET task == [op |-> "unpublish", by |-> p, tracks |-> {t}]
  IN  /\ managed.owners[t] = {p} /\ Later(task)
      /\ tasks' = tasks \cup {task}
      /\ UNCHANGED <<core, managed, sinks, ingresses, reused, slipped>>

\* The tables without some of the tracks.
TracksLeave(gone) ==
  /\ core' = CoreUnpublishes(core, gone)
  /\ managed' = Forget([managed EXCEPT
         !.owners = [t \in Tracks |-> IF t \in gone THEN {} ELSE @[t]],
         !.inputs = [s \in Ssrcs |-> @[s] \ gone]],
       {d \in Subs : \E s \in managed.subs[d] : s.track \in gone})

\* SfuRegistry::unpublish, which only asks that the track be there; its
\* sinks go later.
Unpublish(task) ==
  LET gone == {t \in task.tracks : core.tracks[t] # {}}
  IN  /\ task \in tasks /\ task.op = "unpublish"
      /\ TracksLeave(gone)
      /\ tasks' = (tasks \ {task}) \cup
           {[op |-> "forget", tracks |-> g] : g \in {gone} \ {{}}}
      /\ reused' = {t \in reused : Due(t, tasks', ingresses)}
      /\ UNCHANGED <<sinks, ingresses, slipped>>

\* The sinks of tracks that left.
ForgetSinks(task) ==
  /\ task \in tasks /\ task.op = "forget"
  /\ sinks' = {s \in sinks : s.track \notin task.tracks}
  /\ tasks' = tasks \ {task}
  /\ slipped' = slipped \ task.tracks
  /\ UNCHANGED <<core, managed, ingresses, reused>>

\* add_recording_sink_for_ssrc: the track is there.
AddSink(t, sink) ==
  LET task == [op |-> "sink", track |-> t, sink |-> sink]
  IN  /\ core.tracks[t] # {} /\ Later(task)
      /\ tasks' = tasks \cup {task}
      /\ UNCHANGED <<core, managed, sinks, ingresses, reused, slipped>>

\* The sink is inserted, whatever became of the track.
InsertSink(task) ==
  /\ task \in tasks /\ task.op = "sink"
  /\ sinks' = sinks \cup {[track |-> task.track, sink |-> task.sink]}
  /\ slipped' = IF core.tracks[task.track] # {} THEN slipped
                ELSE slipped \cup {task.track}
  /\ tasks' = tasks \ {task}
  /\ UNCHANGED <<core, managed, ingresses, reused>>

\* remove_recording_sink_destination.
RemoveSink(s) ==
  /\ s \in sinks
  /\ sinks' = sinks \ {s}
  /\ slipped' = {t \in slipped : \E x \in sinks' : x.track = t}
  /\ UNCHANGED <<core, managed, ingresses, tasks, reused>>

\* unbind_session: everything of the participant, its sinks later.
Leave(p) ==
  LET owned == {t \in Tracks : managed.owners[t] = {p}}
      gone == Concerned(managed, p, owned)
      rest == Forget(managed, gone)
      task == [op |-> "forget", tracks |-> owned]
  IN  /\ p \in managed.bound /\ (owned # {} => Later(task))
      /\ core' = CoreUnpublishes(CoreUnsubscribes(core, gone), owned)
      /\ managed' = [rest EXCEPT
           !.bound = @ \ {p},
           !.owners = [t \in Tracks |-> IF t \in owned THEN {} ELSE @[t]],
           !.inputs = [s \in Ssrcs |-> @[s] \ owned],
           !.congestion[p] = {}]
      /\ tasks' = tasks \cup {x \in {task} : owned # {}}
      /\ UNCHANGED <<sinks, ingresses, reused, slipped>>

\* create_transcode_ingress: the synthetic track is published first.
CreateIngress(p, t, s) ==
  LET task == [op |-> "ingress", by |-> p, track |-> t]
  IN  /\ Later(task)
      /\ Published([id |-> t, owner |-> p, ssrcs |-> {s}])
      /\ tasks' = tasks \cup {task}
      /\ UNCHANGED <<sinks, ingresses, slipped>>

\* Then it is kept, or unpublished again at the limit.
KeepIngress(task) ==
  /\ task \in tasks /\ task.op = "ingress"
  /\ IF Cardinality(ingresses) < MaxIngresses
     THEN /\ tasks' = tasks \ {task}
          /\ ingresses' = ingresses \cup
               {[by |-> task.by, track |-> task.track]}
     ELSE /\ tasks' = (tasks \ {task}) \cup
               {[op |-> "unpublish", by |-> task.by,
                 tracks |-> {task.track}]}
          /\ UNCHANGED ingresses
  /\ UNCHANGED <<core, managed, sinks, reused, slipped>>

\* delete_transcode_ingress: its task is cancelled, its track unpublished.
DeleteIngress(g) ==
  LET task == [op |-> "unpublish", by |-> g.by, tracks |-> {g.track}]
  IN  /\ g \in ingresses /\ Later(task)
      /\ ingresses' = ingresses \ {g}
      /\ tasks' = tasks \cup {task}
      /\ UNCHANGED <<core, managed, sinks, reused, slipped>>

SfuNext ==
  \/ \E p \in People :
       \/ Bind(p) \/ Leave(p)
       \/ \E t \in Tracks :
            \/ UnpublishOwned(p, t)
            \/ \E ssrcs \in SUBSET Ssrcs : Publish(p, t, ssrcs)
            \/ \E s \in Ssrcs : CreateIngress(p, t, s)
            \/ \E d \in Subs, o \in Outs, twcc \in BOOLEAN :
                 Subscribe(p, d, t, o, twcc)
       \/ \E d \in Subs : Unsubscribe(p, d)
  \/ \E t \in Tracks, s \in Sinks : AddSink(t, s)
  \/ \E s \in sinks : RemoveSink(s)
  \/ \E g \in ingresses : DeleteIngress(g)
  \/ \E task \in tasks : \/ Unpublish(task) \/ ForgetSinks(task)
                         \/ InsertSink(task) \/ KeepIngress(task)

SfuSpec == SfuInit /\ [][SfuNext]_sfuVars

-----------------------------------------------------------------------------
(* Properties.                                                             *)

SfuTypeOK ==
  /\ managed.bound \subseteq People
  /\ \A t \in Tracks : Cardinality(core.tracks[t]) <= 1
  /\ \A d \in Subs : Cardinality(core.subs[d]) <= 1
  /\ Count(core.tracks) <= MaxTracks /\ Count(core.subs) <= MaxSubs
  /\ Cardinality(ingresses) <= MaxIngresses
  /\ Cardinality(tasks) <= MaxTasks

\* The eleven tables tell one story, however tracks, subscriptions and
\* participants come and go: an SSRC that a table left behind would be
\* refused to the next publisher, or route its packets to a dead track.
TablesAgree ==
  /\ \A t \in Tracks :
       managed.owners[t] = {x.owner : x \in core.tracks[t]}
  /\ managed.inputs = core.ssrcs
  /\ \A s \in Ssrcs :
       core.ssrcs[s] = {t \in Tracks : \E x \in core.tracks[t] :
                                         s \in x.ssrcs}
  /\ \A d \in Subs :
       managed.subs[d] = {[who |-> x.who, track |-> x.track] :
                            x \in core.subs[d]}
  /\ \A t \in Tracks :
       core.consumers[t] = {d \in Subs : \E x \in core.subs[d] :
                                           x.track = t}
  /\ \A o \in Outs :
       core.outs[o] = {d \in Subs : \E x \in core.subs[d] : x.out = o}
  /\ \A p \in People : \A c \in managed.congestion[p] :
       \A d \in c : \E x \in core.subs[d] : x.who = p

\* unbind_session, "Removes a participant transport and all media state
\* owned by that participant": every track and every subscription belongs
\* to someone bound, so that a room nobody is bound to is empty and may be
\* dropped.
EverythingIsOwned ==
  /\ \A t \in Tracks : managed.owners[t] \subseteq managed.bound
  /\ \A d \in Subs : \A x \in core.subs[d] :
       x.who \in managed.bound /\ core.tracks[x.track] # {}
  /\ managed.bound = {} => core = EmptyCore /\ managed = EmptyManaged

\* unpublish_owned, "Removes a source track only when it belongs to the
\* authenticated participant": it does, unless the identifier was published
\* again between the check and the removal.
RemovalIsOwned ==
  [][\A task \in tasks \ tasks' : task.op = "unpublish" =>
       \A t \in task.tracks \ reused :
         managed.owners[t] \subseteq {task.by}]_sfuVars

\* No sink outlives its track, unless it was inserted after the track left.
SinksHaveTracks ==
  \A s \in sinks :
    \/ core.tracks[s.track] # {}
    \/ s.track \in slipped
    \/ \E task \in tasks : task.op = "forget" /\ s.track \in task.tracks

\* The tables of a room agree, belong to someone bound, and stay within their
\* limits.
RoomIsSound ==
  /\ SfuTypeOK /\ TablesAgree /\ EverythingIsOwned /\ SinksHaveTracks
=============================================================================
